---- MODULE Spec2Model ----
(***************************************************************************)
(* Verification model of the Modbus acquisition core of Modbus-Webserver:  *)
(* the alarm engine (services/alarm_checker.py), the protocol driver       *)
(* (services/modbus_driver.py), the register service                       *)
(* (services/register_service.py) and the connection manager               *)
(* (services/connection_manager.py).                                       *)
(*                                                                         *)
(* Python's None is the empty sequence and a present value x is <<x>>.     *)
(* Float values are modelled by the integers the checked cases use.        *)
(***************************************************************************)
EXTENDS Integers, Sequences, FiniteSets, TLC

None == <<>>
Some(x) == <<x>>
Get(o) == o[1]

(***************************************************************************)
(* Bounds of the model.                                                    *)
(***************************************************************************)
MaxSamples == 2
MaxEvents == 3
MaxCount == 2
MaxValue == 3
MaxHysteresis == 2
MaxRaw == 2
MaxRetention == 1
MaxTime == 2
MaxPolls == 2

(***************************************************************************)
(* PROTOCOL DRIVER                                                         *)
(***************************************************************************)

\* The configured interfaces: interface 1 is RTU, interface 2 is TCP.
Ifaces == {1, 2}
Protocol(i) == IF i = 1 THEN "RTU" ELSE "TCP"

\* Modbus function codes: reads FC01-04, writes FC05, 06, 15, 16.
ReadCodes == {1, 2, 3, 4}
WriteCodes == {5, 6, 15, 16}

\* What the transport library does with a connect: the client object is
\* built and connects ("ok"), is built and fails to connect, by returning
\* false or by raising ("refused"), or its constructor raises
\* ("ctor_raises").
ConnectOutcomes == {"ok", "refused", "ctor_raises"}

\* What comes back for a request: a normal response ("data"), a response
\* with isError() ("error"), or an exception such as a timeout ("raises").
ReqOutcomes == {"data", "error", "raises"}

\* ModbusDriverBase.__init__: a driver of interface i. client is "none" (None), "closed" (a client object without an open
\* transport) or "open".
NewDriver(i) == [iface |-> i, client |-> "none", connected |-> FALSE]

\* ModbusDriverBase.is_connected
is_connected(drv) == drv.connected /\ drv.client # "none"

\* ModbusRTUDriver.connect / ModbusTCPDriver.connect: the driver afterwards.
\* self.client is assigned before client.connect() is called, so only a
\* raising client constructor leaves the old self.client in place.
ConnectDrv(drv, co) ==
    CASE co = "ok" -> [drv EXCEPT !.client = "open", !.connected = TRUE]
      [] co = "refused" -> [drv EXCEPT !.client = "closed", !.connected = FALSE]
      [] OTHER -> [drv EXCEPT !.connected = FALSE]

\* The value connect() returns.
ConnectRet(co) == co = "ok"

\* The value an operation returns on failure and on success: reads return
\* None or the data, writes return False or True.
FailRet(fc) == IF fc \in ReadCodes THEN "None" ELSE "False"
OkRet(fc) == IF fc \in ReadCodes THEN "data" ELSE "True"

\* Whether the operation checks what its implicit connect() returned:
\* write_register (FC06) calls self.connect() and goes on regardless.
ChecksConnect(fc) == fc # 6

\* A driver in which no operation marks the connection broken.
MarksNothing(fc) == FALSE

\* Whether an error response or an exception marks the connection broken
\* (self._connected = False): not in write_register (FC06).
MarksBroken(fc) == fc # 6

\* The first half of a driver operation (read_coils ... write_registers) on
\* driver drv, up to the call into the client: the implicit connect(),
\* answered co, and whether a request is handed to the client.
IssueOp(drv, fc, co) ==
    LET pre == is_connected(drv)
        d1 == IF pre THEN drv ELSE ConnectDrv(drv, co)
        connects == IF pre THEN 0 ELSE 1
        connectFailed == ~pre /\ ~ConnectRet(co)
    IN  IF connectFailed /\ ChecksConnect(fc)
        THEN [drv |-> d1, connects |-> connects, connectFailed |-> TRUE,
              requested |-> FALSE]
        ELSE IF d1.client = "none"
        THEN \* self.client is None: AttributeError, caught by the operation
             [drv |-> IF MarksBroken(fc) THEN [d1 EXCEPT !.connected = FALSE] ELSE d1,
              connects |-> connects, connectFailed |-> connectFailed,
              requested |-> FALSE]
        ELSE [drv |-> d1, connects |-> connects, connectFailed |-> connectFailed,
              requested |-> TRUE]

\* The second half: the client's answer ro to the request. A response, good
\* or bad, came over an open transport.
AnswerOp(drv, fc, ro) ==
    IF ro = "data"
    THEN [drv |-> [drv EXCEPT !.client = "open"], ret |-> OkRet(fc)]
    ELSE LET d2 == IF ro = "error" THEN [drv EXCEPT !.client = "open"] ELSE drv
         IN  [drv |-> IF MarksBroken(fc) THEN [d2 EXCEPT !.connected = FALSE] ELSE d2,
              ret |-> FailRet(fc)]

\* One whole driver operation. Yields the driver afterwards, the returned
\* value, how many connect() calls were made, whether that connect failed and
\* whether a request was handed to the client.
DriverOp(drv, fc, co, ro) ==
    LET s == IssueOp(drv, fc, co)
        a == AnswerOp(s.drv, fc, ro)
    IN  [drv |-> IF s.requested THEN a.drv ELSE s.drv,
         ret |-> IF s.requested THEN a.ret ELSE FailRet(fc),
         connects |-> s.connects, connectFailed |-> s.connectFailed,
         requested |-> s.requested]

\* A register word is 16 bits wide.
WordRange == 65536
Words == 0..(WordRange - 1)

\* What convert_registers_to_value returns: None, or a value tagged with its
\* kind.  A bool is 1 or 0; a 32-bit unsigned integer and the bit pattern of a
\* float are written <<high word, low word>>.
Absent == [type |-> "None", value |-> 0]
Decoded(type, value) == [type |-> type, value |-> value]

\* The INT16 branch with the sign boundary one word too high.
Int16Above(value) == IF value > WordRange \div 2 THEN value - WordRange ELSE value

\* The INT16 branch: if value >= 32768: value -= 65536.
Int16(value) == IF value >= WordRange \div 2 THEN value - WordRange ELSE value

\* struct.pack(">HH" or "<HH", r0, r1) read back as one 32-bit number in the
\* same byte order: <<high word, low word>>.
PackWords(r0, r1, byte_order) == IF byte_order = "big" THEN <<r0, r1>> ELSE <<r1, r0>>

\* ModbusDriverBase.convert_registers_to_value
convert_registers_to_value(registers, data_type, byte_order, word_order) ==
    LET dt == IF data_type = "AUTO"
              THEN IF Len(registers) = 1 THEN "UINT16" ELSE "FLOAT32"
              ELSE data_type
        r == IF word_order = "low_high" THEN <<registers[2], registers[1]>> ELSE registers
        bits == PackWords(r[1], r[2], byte_order)
    IN  CASE dt = "BOOL" ->
                IF Len(registers) = 0 THEN Absent
                ELSE Decoded("bool", IF registers[1] # 0 THEN 1 ELSE 0)
          [] dt = "INT16" ->
                IF Len(registers) = 0 THEN Absent
                ELSE Decoded("int", Int16(registers[1]))
          [] dt = "UINT16" ->
                IF Len(registers) = 0 THEN Absent
                ELSE Decoded("int", registers[1])
          [] dt \in {"INT32", "UINT32", "FLOAT32"} ->
                IF Len(registers) < 2 THEN Absent
                ELSE IF dt = "INT32"
                THEN Decoded("int", Int16(bits[1]) * WordRange + bits[2])
                ELSE IF dt = "UINT32" THEN Decoded("uint32", bits)
                ELSE Decoded("float", bits)
          [] OTHER -> Absent

\* What client.close() does inside disconnect(): returns or raises.
CloseOutcomes == {"ok", "raises"}

\* ModbusRTUDriver.disconnect / ModbusTCPDriver.disconnect: a raising
\* client.close() skips self._connected = False (the exception is logged).
DisconnectDrv(drv, xo) ==
    IF drv.client # "none" /\ xo = "raises"
    THEN drv
    ELSE [drv EXCEPT !.connected = FALSE,
                     !.client = IF @ = "none" THEN "none" ELSE "closed"]

(***************************************************************************)
(* REGISTER SERVICE AND CONNECTION MANAGER: state                          *)
(***************************************************************************)

\* Devices: 1 and 3 hang on interface 1, 2 on interface 2; device 3 is
\* disabled.
Devices == {1, 2, 3}
DevCfg(d) ==
    CASE d = 1 -> [iface |-> 1, enabled |-> TRUE]
      [] d = 2 -> [iface |-> 2, enabled |-> TRUE]
      [] OTHER -> [iface |-> 1, enabled |-> FALSE]

\* Register definitions a call can be made with: any device, any function
\* code (7 stands for a code that is neither a read nor a write code), the
\* enabled and writable flags either way.
FunctionCodes == ReadCodes \cup WriteCodes \cup {7}
Reg(d, fc, en, wr) == [device |-> d, fc |-> fc, enabled |-> en, writable |-> wr]

Registers ==
    {Reg(1, fc, TRUE, TRUE) : fc \in FunctionCodes}
        \cup {Reg(2, 3, TRUE, TRUE), Reg(2, 6, TRUE, TRUE), Reg(3, 3, TRUE, TRUE),
              Reg(1, 3, FALSE, TRUE), Reg(1, 6, TRUE, FALSE)}

\* An is_writable that looks at the writable flag only.
WritableFlagOnly(r) == r.writable

\* Register.is_writable
is_writable(r) == r.fc \in {5, 6, 15, 16} /\ r.writable

\* The registers the concurrent callers poll and write: holding-register
\* reads (FC03) and single-register writes (FC06) on enabled devices.
ConcRegisters ==
    {r \in Registers : r.fc \in {3, 6} /\ r.enabled /\ r.writable
                                       /\ DevCfg(r.device).enabled}

Threads == {1, 2}

VARIABLES
    ifaceEnabled,   \* ModbusInterface.enabled
    ifaceStatus,    \* ModbusInterface.connection_status
    svc,            \* RegisterService.drivers: interface id -> None or <<driver>>
    pool,           \* ConnectionManager._connections: id -> None or <<driver>>
    stats,          \* ConnectionManager._connection_stats: id -> None or <<bucket>>
    lastCall,       \* what the last completed call did and returned
    thr             \* per worker thread: the call it is in the middle of

connVars == <<ifaceEnabled, ifaceStatus, svc, pool, stats, lastCall, thr>>

VARIABLES
    trend,          \* TrendData rows of the register, in timestamp order
    alarmEnabled,   \* Alarm.enabled per alarm
    lastTriggered,  \* Alarm.last_triggered per alarm (None or <<time>>)
    history,        \* AlarmHistory rows, in creation (id) order
    alarmCall,      \* the last alarm-engine call and what it returned: [op, arg, ret]
    checking        \* per worker: the check_alarm it is in the middle of (None or <<call>>)

alarmVars == <<trend, alarmEnabled, lastTriggered, history, alarmCall, checking>>

VARIABLES
    evalCall,       \* the last direct call of a pure method: its arguments and result
    rawData,        \* TrendData table of the aggregator: sample row -> number of such rows
    aggregated,     \* TrendDataAggregated table: (register, interval, timestamp) -> rows
    aggCall         \* the last aggregator call and what it returned

dataVars == <<evalCall, rawData, aggregated, aggCall>>

VARIABLES
    clock,          \* the time, in seconds
    devState,       \* per Device: connection_status, last_poll, error_count
    queue,          \* the devices a poll_device_registers task is queued for
    pollCall,       \* the last polling task and what it did
    trail           \* per device: how many polls it had, and how many of the latest in a row gave no data

pollVars == <<clock, devState, queue, pollCall, trail>>

\* A worker thread's position: pc is "idle", "waiting" (a request is on the
\* transport), "creating" (between the pool lookup and _create_connection)
\* or "done" (the call returned ret, or raised); overlap tells that another
\* thread was creating a connection for the same interface at the same time.
Idle ==
    [pc |-> "idle", op |-> "none", iface |-> 0, fc |-> 0, ret |-> "None",
     built |-> 0, connects |-> 0, overlap |-> FALSE]

NoCall ==
    [op |-> "none", reg |-> Reg(0, 0, FALSE, FALSE), iface |-> 0, fc |-> 0,
     ret |-> "None", connects |-> 0,
     connectFailed |-> FALSE, requested |-> FALSE,
     device |-> 0, attempts |-> <<>>, rets |-> <<>>, results |-> {}]

ConnInit ==
    /\ ifaceEnabled = [i \in Ifaces |-> TRUE]
    /\ ifaceStatus = [i \in Ifaces |-> "offline"]
    /\ svc = [i \in Ifaces |-> None]
    /\ pool = [i \in Ifaces |-> None]
    /\ stats = [i \in Ifaces |-> None]
    /\ lastCall = NoCall
    /\ thr = [t \in Threads |-> Idle]

\* The configuration layer switches ModbusInterface.enabled.
SetIfaceEnabled(i, b) ==
    /\ ifaceEnabled[i] # b
    /\ ifaceEnabled' = [ifaceEnabled EXCEPT ![i] = b]
    /\ UNCHANGED <<ifaceStatus, svc, pool, stats, lastCall, thr>>
    /\ UNCHANGED <<alarmVars, dataVars, pollVars>>

(***************************************************************************)
(* REGISTER SERVICE                                                        *)
(***************************************************************************)

\* No call is in progress on any worker thread.
Quiet == \A t \in Threads : thr[t] = Idle

\* A get_driver that constructs a driver on every call.
GetDriverUncached(cache, i) == NewDriver(i)

\* RegisterService.get_driver: the cached driver of interface i, or a new one
\* from create_driver(interface), constructed but not yet connected.
get_driver(cache, i) == IF cache[i] = None THEN NewDriver(i) ELSE Get(cache[i])

\* A read_register that looks at the interface's and the register's flags
\* only.
ReadRefusedIgnoringDevice(r) ==
    ~ifaceEnabled[DevCfg(r.device).iface] \/ ~r.enabled

\* Whether read_register returns None, and write_register False, before any
\* driver is looked up.
ReadRefused(r) ==
    ~ifaceEnabled[DevCfg(r.device).iface] \/ ~DevCfg(r.device).enabled \/ ~r.enabled

WriteRefused(r) == ReadRefused(r) \/ ~is_writable(r)

\* The driver call of read_register / write_register for register r, made on
\* the driver get_driver returned: dispatch is the set of function codes the
\* method dispatches on; any other code is logged and answered None / False
\* without touching the driver.
ServiceCallOn(cache, op, r, dispatch, co, ro) ==
    LET i == DevCfg(r.device).iface
        drv == get_driver(cache, i)
        o == DriverOp(drv, r.fc, co, ro)
    IN  IF r.fc \in dispatch
        THEN [drv |-> o.drv,
              call |-> [NoCall EXCEPT !.op = op, !.reg = r, !.iface = i, !.fc = r.fc,
                                      !.ret = o.ret, !.connects = o.connects,
                                      !.connectFailed = o.connectFailed,
                                      !.requested = o.requested]]
        ELSE [drv |-> drv,
              call |-> [NoCall EXCEPT !.op = op, !.reg = r, !.iface = i, !.fc = r.fc,
                                      !.ret = IF op = "read_register" THEN "None"
                                                                      ELSE "False"]]

ServiceCall(op, r, dispatch, co, ro) == ServiceCallOn(svc, op, r, dispatch, co, ro)

\* RegisterService.read_register on the driver cache given: the cache
\* afterwards and what the call did and returned.
ReadRegister(cache, r, co, ro) ==
    LET c == ServiceCallOn(cache, "read_register", r, ReadCodes, co, ro)
    IN  IF ReadRefused(r)
        THEN [svc |-> cache,
              call |-> [NoCall EXCEPT !.op = "read_register", !.reg = r, !.fc = r.fc,
                                      !.iface = DevCfg(r.device).iface]]
        ELSE [svc |-> [cache EXCEPT ![DevCfg(r.device).iface] = Some(c.drv)],
              call |-> c.call]

\* RegisterService.read_register, run to completion.
read_register(r, co, ro) ==
    LET c == ReadRegister(svc, r, co, ro)
    IN  /\ Quiet
        /\ svc' = c.svc
        /\ lastCall' = c.call
        /\ UNCHANGED <<ifaceEnabled, ifaceStatus, pool, stats, thr>>
        /\ UNCHANGED <<alarmVars, dataVars, pollVars>>

\* RegisterService.write_register, run to completion.
write_register(r, co, ro) ==
    LET c == ServiceCall("write_register", r, WriteCodes, co, ro)
    IN  /\ Quiet
        /\ IF WriteRefused(r)
           THEN /\ lastCall' = [NoCall EXCEPT !.op = "write_register", !.reg = r, !.fc = r.fc,
                                              !.iface = DevCfg(r.device).iface,
                                              !.ret = "False"]
                /\ UNCHANGED svc
           ELSE /\ svc' = [svc EXCEPT ![DevCfg(r.device).iface] = Some(c.drv)]
                /\ lastCall' = c.call
        /\ UNCHANGED <<ifaceEnabled, ifaceStatus, pool, stats, thr>>
        /\ UNCHANGED <<alarmVars, dataVars, pollVars>>

\* The register rows of device d in primary-key order; a register's id is
\* its position.
RegistersOf(d) ==
    CASE d = 1 -> <<Reg(1, 3, TRUE, TRUE), Reg(1, 3, FALSE, TRUE), Reg(1, 4, TRUE, TRUE)>>
      [] d = 2 -> <<Reg(2, 3, TRUE, TRUE), Reg(2, 6, TRUE, TRUE)>>
      [] OTHER -> <<Reg(3, 3, TRUE, TRUE)>>

\* device.registers.filter(enabled=True): the ids of the enabled registers.
EnabledIds(d) ==
    SelectSeq([k \in 1..Len(RegistersOf(d)) |-> k],
              LAMBDA k : RegistersOf(d)[k].enabled)

\* A loop over the registers that gives up at the first read without data.
RECURSIVE ReadEachUntilFailure(_, _, _, _, _)
ReadEachUntilFailure(d, ids, outs, k, acc) ==
    IF k > Len(ids)
    THEN acc
    ELSE LET x == ReadRegister(acc.svc, RegistersOf(d)[ids[k]], outs[k][1], outs[k][2])
             nxt == [svc |-> x.svc,
                     attempts |-> Append(acc.attempts, ids[k]),
                     rets |-> Append(acc.rets, x.call.ret),
                     results |-> IF x.call.ret # "None" THEN acc.results \cup {ids[k]}
                                                        ELSE acc.results]
         IN  IF x.call.ret = "None" THEN nxt
             ELSE ReadEachUntilFailure(d, ids, outs, k + 1, nxt)

\* The loop of read_device_registers from the k-th enabled register on:
\* read_register is called for each, answered outs[k], and a register whose
\* raw value is not None gets an entry in the results.
RECURSIVE ReadEach(_, _, _, _, _)
ReadEach(d, ids, outs, k, acc) ==
    IF k > Len(ids)
    THEN acc
    ELSE LET x == ReadRegister(acc.svc, RegistersOf(d)[ids[k]], outs[k][1], outs[k][2])
         IN  ReadEach(d, ids, outs, k + 1,
                      [svc |-> x.svc,
                       attempts |-> Append(acc.attempts, ids[k]),
                       rets |-> Append(acc.rets, x.call.ret),
                       results |-> IF x.call.ret # "None" THEN acc.results \cup {ids[k]}
                                                          ELSE acc.results])

\* RegisterService.read_device_registers, run to completion.
read_device_registers(d, outs) ==
    LET res == ReadEach(d, EnabledIds(d), outs, 1,
                        [svc |-> svc, attempts |-> <<>>, rets |-> <<>>, results |-> {}])
    IN  /\ Quiet
        /\ svc' = res.svc
        /\ lastCall' = [NoCall EXCEPT !.op = "read_device_registers", !.device = d,
                                      !.iface = DevCfg(d).iface, !.ret = "dict",
                                      !.attempts = res.attempts, !.rets = res.rets,
                                      !.results = res.results]
        /\ UNCHANGED <<ifaceEnabled, ifaceStatus, pool, stats, thr>>
        /\ UNCHANGED <<alarmVars, dataVars, pollVars>>

\* RegisterService.get_driver(interface) called on its own: the driver it
\* returns is the one in the cache afterwards.
GetDriver(i) ==
    /\ Quiet
    /\ svc' = [svc EXCEPT ![i] = Some(get_driver(svc, i))]
    /\ lastCall' = [NoCall EXCEPT !.op = "get_driver", !.iface = i]
    /\ UNCHANGED <<ifaceEnabled, ifaceStatus, pool, stats, thr>>
    /\ UNCHANGED <<alarmVars, dataVars, pollVars>>

\* driver.disconnect() called on the driver that get_driver returns for
\* interface i; xo is what client.close() does.  The call returns None.
Disconnect(i, xo) ==
    /\ Quiet
    /\ svc[i] # None
    /\ svc' = [svc EXCEPT ![i] = Some(DisconnectDrv(Get(svc[i]), xo))]
    /\ lastCall' = [NoCall EXCEPT !.op = "disconnect", !.iface = i]
    /\ UNCHANGED <<ifaceEnabled, ifaceStatus, pool, stats, thr>>
    /\ UNCHANGED <<alarmVars, dataVars, pollVars>>

\* RegisterService.close_all_connections: disconnect every cached driver and
\* clear the cache.
close_all_connections ==
    /\ Quiet
    /\ svc' = [i \in Ifaces |-> None]
    /\ lastCall' = [NoCall EXCEPT !.op = "close_all_connections"]
    /\ UNCHANGED <<ifaceEnabled, ifaceStatus, pool, stats, thr>>
    /\ UNCHANGED <<alarmVars, dataVars, pollVars>>

(***************************************************************************)
(* CONNECTION MANAGER                                                      *)
(***************************************************************************)

\* Python call binding: a call passing the keyword arguments kwargs to a
\* callable with parameters params, of which required have no default, goes
\* through only if every keyword names a parameter and every required
\* parameter is supplied; otherwise it raises TypeError.
Binds(kwargs, params, required) == kwargs \subseteq params /\ required \subseteq kwargs

\* The keyword arguments _create_connection constructs the driver with.
CtorKwargs(protocol) ==
    IF protocol = "RTU"
    THEN {"port", "baudrate", "parity", "stopbits", "bytesize", "timeout"}
    ELSE {"host", "tcp_port", "timeout"}

\* A driver constructor that takes the transport parameters as optional
\* keywords.
InitTakingTransport ==
    [params |-> {"port", "baudrate", "parity", "stopbits", "bytesize", "host",
                 "tcp_port", "timeout"},
     required |-> {}]

\* ModbusDriverBase.__init__(self, interface_config), which ModbusRTUDriver
\* and ModbusTCPDriver inherit: one required parameter.
DriverInit == [params |-> {"interface_config"}, required |-> {"interface_config"}]

\* health_check's probe call read_holding_registers(address=0, count=1, slave=1)
\* and the method's signature read_holding_registers(self, slave_id, address,
\* count=1).
ProbeKwargs == {"address", "count", "slave"}
ReadHolding == [params |-> {"slave_id", "address", "count"},
                required |-> {"slave_id", "address"}]

\* The manager's in-memory state and the interface status rows, as one value.
Mgr == [pool |-> pool, stats |-> stats, status |-> ifaceStatus]

NewStats == [success_count |-> 0, error_count |-> 0]

\* ConnectionManager._close_connection: disconnect and drop the pooled driver.
_close_connection(m, i) ==
    IF i \in Ifaces /\ m.pool[i] # None THEN [m EXCEPT !.pool[i] = None] ELSE m

\* ConnectionManager._test_connection: a driver whose client has
\* is_socket_open() is alive iff its socket is open; one without a client
\* object is assumed alive.
_test_connection(drv) == IF drv.client = "none" THEN TRUE ELSE drv.client = "open"

\* ConnectionManager._create_connection. The result carries the manager state
\* afterwards, the driver returned (None when the call raised) and how many
\* drivers were constructed and connect() calls made.
_create_connection(m, i, co) ==
    IF Binds(CtorKwargs(Protocol(i)), DriverInit.params, DriverInit.required)
    THEN LET drv == ConnectDrv(NewDriver(i), co)
         IN  [m |-> [m EXCEPT !.pool[i] = Some(drv),
                              !.stats[i] = IF @ = None THEN Some(NewStats) ELSE @],
              ret |-> Some(drv), built |-> 1, connects |-> 1]
    ELSE \* the constructor call raises TypeError: the except branch sets the
         \* status and re-raises
         [m |-> [m EXCEPT !.status[i] = "error"],
          ret |-> None, built |-> 0, connects |-> 0]

\* get_connection with the test of interface.enabled left out.
GetConnectionUnchecked(m, i, co) ==
    IF m.pool[i] # None /\ _test_connection(Get(m.pool[i]))
    THEN [m |-> m, ret |-> m.pool[i], built |-> 0, connects |-> 0]
    ELSE _create_connection(_close_connection(m, i), i, co)

\* ConnectionManager.get_connection
get_connection(m, i, co) ==
    IF ~ifaceEnabled[i]
    THEN [m |-> m, ret |-> None, built |-> 0, connects |-> 0]
    ELSE IF m.pool[i] # None /\ _test_connection(Get(m.pool[i]))
    THEN [m |-> m, ret |-> m.pool[i], built |-> 0, connects |-> 0]
    ELSE _create_connection(_close_connection(m, i), i, co)

\* ConnectionManager._record_success / _record_error: only an interface that
\* has a statistics bucket is counted.
_record_success(m, i) ==
    IF m.stats[i] # None
    THEN [m EXCEPT !.stats[i] = Some([Get(@) EXCEPT !.success_count = @ + 1])]
    ELSE m

_record_error(m, i) ==
    IF m.stats[i] # None
    THEN [m EXCEPT !.stats[i] = Some([Get(@) EXCEPT !.error_count = @ + 1])]
    ELSE m

\* ConnectionManager.get_statistics: the counters it reports.
get_statistics(m, i) ==
    IF m.stats[i] # None
    THEN [success_count |-> Get(m.stats[i]).success_count,
          error_count |-> Get(m.stats[i]).error_count,
          is_connected |-> m.pool[i] # None]
    ELSE [success_count |-> 0, error_count |-> 0, is_connected |-> FALSE]

\* The except branch of health_check.
HealthCheckFailed(m, i) ==
    _close_connection(_record_error([m EXCEPT !.status[i] = "error"], i), i)

\* health_check after get_connection gave g: the probe read, answered co2 (its
\* implicit connect) and ro (the request), and both outcomes.
HealthCheckWith(g, i, co2, ro) ==
    IF g.ret = None \/ ~Binds(ProbeKwargs, ReadHolding.params, ReadHolding.required)
    THEN [m |-> HealthCheckFailed(g.m, i), ret |-> FALSE, probed |-> FALSE,
          probe |-> "None"]
    ELSE LET o == DriverOp(Get(g.ret), 3, co2, ro)
             m1 == [g.m EXCEPT !.pool[i] = Some(o.drv), !.status[i] = "online"]
         IN  [m |-> _record_success(m1, i), ret |-> TRUE, probed |-> TRUE,
              probe |-> o.ret]

\* ConnectionManager.health_check: co answers the connect of a newly created
\* driver.
health_check(m, i, co, co2, ro) == HealthCheckWith(get_connection(m, i, co), i, co2, ro)

\* ConnectionManager.reconnect: id 0 is an id no interface row has.
reconnect(m, i, co) ==
    IF i \notin Ifaces
    THEN [m |-> _close_connection(m, i), ret |-> FALSE, connects |-> 0]
    ELSE LET c == _create_connection(_close_connection(m, i), i, co)
         IN  [m |-> c.m, ret |-> c.ret # None, connects |-> c.connects]

\* The statistics counters are capped by MaxCount.
MgrWithinBounds(m) ==
    \A i \in Ifaces : m.stats[i] # None =>
        Get(m.stats[i]).success_count + Get(m.stats[i]).error_count <= MaxCount

SetMgr(m) ==
    /\ MgrWithinBounds(m)
    /\ pool' = m.pool
    /\ stats' = m.stats
    /\ ifaceStatus' = m.status

BoolRet(b) == IF b THEN "True" ELSE "False"

\* get_connection called by a task, run to completion.
GetConnection(i, co) ==
    LET g == get_connection(Mgr, i, co)
    IN  /\ Quiet
        /\ SetMgr(g.m)
        /\ lastCall' = [NoCall EXCEPT !.op = "get_connection", !.iface = i,
                                      !.ret = IF g.ret = None THEN "raised" ELSE "driver",
                                      !.connects = g.connects,
                                      !.connectFailed = g.connects > 0 /\ ~ConnectRet(co)]
        /\ UNCHANGED <<ifaceEnabled, svc, thr>>
        /\ UNCHANGED <<alarmVars, dataVars, pollVars>>

\* health_check called by the health_check_interfaces task, run to completion.
HealthCheck(i, co, co2, ro) ==
    LET h == health_check(Mgr, i, co, co2, ro)
    IN  /\ Quiet
        /\ SetMgr(h.m)
        /\ lastCall' = [NoCall EXCEPT !.op = "health_check", !.iface = i, !.fc = 3,
                                      !.ret = BoolRet(h.ret),
                                      !.requested = h.probed]
        /\ UNCHANGED <<ifaceEnabled, svc, thr>>
        /\ UNCHANGED <<alarmVars, dataVars, pollVars>>

\* reconnect, run to completion.
Reconnect(i, co) ==
    LET c == reconnect(Mgr, i, co)
    IN  /\ Quiet
        /\ SetMgr(c.m)
        /\ lastCall' = [NoCall EXCEPT !.op = "reconnect", !.iface = i, !.ret = BoolRet(c.ret),
                                      !.connects = c.connects,
                                      !.connectFailed = c.connects > 0 /\ ~ConnectRet(co)]
        /\ UNCHANGED <<ifaceEnabled, svc, thr>>
        /\ UNCHANGED <<alarmVars, dataVars, pollVars>>

\* ConnectionManager.close_all
close_all ==
    /\ Quiet
    /\ pool' = [i \in Ifaces |-> None]
    /\ lastCall' = [NoCall EXCEPT !.op = "close_all"]
    /\ UNCHANGED <<ifaceEnabled, ifaceStatus, svc, stats, thr>>
    /\ UNCHANGED <<alarmVars, dataVars, pollVars>>

(***************************************************************************)
(* ALARM ENGINE                                                            *)
(***************************************************************************)

\* The alarms of the single monitored register (Alarm rows, models.py:472-510).
Alarms == {1, 2}

\* Alarm configuration: condition, threshold_high, threshold_low, hysteresis.
AlarmCfg(a) ==
    CASE a = 1 -> [condition |-> "greater_than", threshold_high |-> 50,
                   threshold_low |-> None, hysteresis |-> 5]
      [] a = 2 -> [condition |-> "less_than", threshold_high |-> 56,
                   threshold_low |-> None, hysteresis |-> 0]
      [] OTHER -> [condition |-> "range", threshold_high |-> 56,
                   threshold_low |-> None, hysteresis |-> 0]

\* All alarm rows: alarms 1 and 2 and alarm 3, a range alarm saved without a
\* low threshold (threshold_low is nullable).
ConfiguredAlarms == Alarms \cup {3}

\* Converted values a sample can carry, and the TrendData quality tags.
SampleValues == {55, 56}
Qualities == {"good", "bad"}

\* acknowledged_by arguments of acknowledge_alarm ("" stands for None).
AckArgs == {"", "alice"}

\* The user names AlarmViewSet.acknowledge stamps.
ViewUsers == {"bob"}


\* timezone.now(): sample timestamps are strictly increasing, one tick per
\* stored sample; a handler running after the k-th sample reads time k.
Now == Len(trend)

Abs(x) == IF x < 0 THEN 0 - x ELSE x

\* _evaluate_condition with the hysteresis band left out of greater_than.
EvalNoHysteresis(condition, value, threshold_high, threshold_low, hysteresis) ==
    CASE condition = "greater_than" -> value > threshold_high
      [] condition = "less_than" -> value < threshold_high - hysteresis
      [] OTHER -> FALSE

\* _evaluate_condition with the two ends of the range band counted as outside.
EvalOpenBand(condition, value, threshold_high, threshold_low, hysteresis) ==
    CASE condition = "greater_than" -> value > threshold_high + hysteresis
      [] condition = "less_than" -> value < threshold_high - hysteresis
      [] condition = "equals" -> Abs(value - threshold_high) <= hysteresis
      [] condition = "not_equals" -> Abs(value - threshold_high) > hysteresis
      [] condition = "range" ->
            IF threshold_low = None
            THEN FALSE
            ELSE ~(Get(threshold_low) - hysteresis < value
                   /\ value < threshold_high + hysteresis)
      [] OTHER -> FALSE

\* AlarmChecker._evaluate_condition
_evaluate_condition(condition, value, threshold_high, threshold_low, hysteresis) ==
    CASE condition = "greater_than" -> value > threshold_high + hysteresis
      [] condition = "less_than" -> value < threshold_high - hysteresis
      [] condition = "equals" -> Abs(value - threshold_high) <= hysteresis
      [] condition = "not_equals" -> Abs(value - threshold_high) > hysteresis
      [] condition = "range" ->
            IF threshold_low = None
            THEN FALSE
            ELSE ~(Get(threshold_low) - hysteresis <= value
                   /\ value <= threshold_high + hysteresis)
      [] OTHER -> FALSE

\* TrendData.objects.filter(register, quality='good').order_by('-timestamp').first()
\* as an index into trend, 0 when there is no good sample.
RECURSIVE LatestGoodFrom(_, _)
LatestGoodFrom(rows, i) ==
    IF i = 0 THEN 0
    ELSE IF rows[i].quality = "good" THEN i
    ELSE LatestGoodFrom(rows, i - 1)

LatestGood(rows) == LatestGoodFrom(rows, Len(rows))

\* is_active that never sees the open row.
IsActiveNever(hist, a) == FALSE

\* Alarm.is_active: self.history.filter(cleared_at__isnull=True).exists()
is_active(hist, a) ==
    \E i \in 1..Len(hist) : hist[i].alarm = a /\ hist[i].cleared_at = None

\* _trigger_alarm storing the row as already acknowledged.
NewEventAcked(a, value, t) ==
    [alarm |-> a, triggered_at |-> t, cleared_at |-> None, trigger_value |-> value,
     acknowledged |-> TRUE, acknowledged_at |-> None, acknowledged_by |-> ""]

\* AlarmChecker._trigger_alarm: the AlarmHistory row it creates.
NewEvent(a, value, t) ==
    [alarm |-> a, triggered_at |-> t, cleared_at |-> None, trigger_value |-> value,
     acknowledged |-> FALSE, acknowledged_at |-> None, acknowledged_by |-> ""]

\* filter(alarm, cleared_at__isnull=True).order_by('-triggered_at').first():
\* the open rows of the alarm with the greatest triggered_at (the database
\* picks any one of them when several tie).
OpenRows(hist, a) ==
    {i \in 1..Len(hist) : hist[i].alarm = a /\ hist[i].cleared_at = None}

MostRecentOpen(hist, a) ==
    {i \in OpenRows(hist, a) :
        \A j \in OpenRows(hist, a) : hist[j].triggered_at <= hist[i].triggered_at}

\* AlarmChecker._clear_alarm: stamp cleared_at on row i.
ClearRow(hist, i, t) == [hist EXCEPT ![i].cleared_at = Some(t)]

\* What an alarm-engine call returned: ret for the calls that return a bool,
\* the counters of the dict for check_all_alarms, raised when the call ended
\* in an exception, early when check_alarm returned before evaluating the
\* condition.
AlarmRet(op, arg, ret) ==
    [op |-> op, arg |-> arg, ret |-> ret, raised |-> FALSE, early |-> FALSE,
     checked |-> 0, triggered |-> 0, errors |-> 0]

AlarmInit ==
    /\ trend = <<>>
    /\ alarmEnabled = [a \in ConfiguredAlarms |-> TRUE]
    /\ lastTriggered = [a \in ConfiguredAlarms |-> None]
    /\ history = <<>>
    /\ alarmCall = AlarmRet("none", 0, FALSE)
    /\ checking = [t \in Threads |-> None]

\* A poll (tasks.py:84-86) or any other writer stores a TrendData row.
AddSample(v, q) ==
    /\ Len(trend) < MaxSamples
    /\ trend' = Append(trend, [timestamp |-> Now + 1, value |-> v, quality |-> q])
    /\ UNCHANGED <<alarmEnabled, lastTriggered, history, alarmCall, checking>>
    /\ UNCHANGED <<connVars, dataVars, pollVars>>

\* The configuration layer switches Alarm.enabled.
SetAlarmEnabled(a, b) ==
    /\ alarmEnabled[a] # b
    /\ alarmEnabled' = [alarmEnabled EXCEPT ![a] = b]
    /\ UNCHANGED <<trend, lastTriggered, history, alarmCall, checking>>
    /\ UNCHANGED <<connVars, dataVars, pollVars>>

\* The early returns of check_alarm with the test of alarm.enabled left out.
ReturnsEarlyWithoutData(enabled, k) == k = 0

\* The early returns of check_alarm: the alarm is disabled, or its register
\* has no good-quality sample (k = 0).
ReturnsEarly(enabled, k) == ~enabled \/ k = 0

\* AlarmChecker.check_alarm, run to completion.
check_alarm(a) ==
    LET cfg == AlarmCfg(a)
        k == LatestGood(trend)
        value == trend[k].value
        should_trigger == _evaluate_condition(cfg.condition, value,
                              cfg.threshold_high, cfg.threshold_low, cfg.hysteresis)
    IN  /\ UNCHANGED <<trend, alarmEnabled, checking>>
        /\ UNCHANGED <<connVars, dataVars, pollVars>>
        /\ IF ReturnsEarly(alarmEnabled[a], k)
           THEN /\ alarmCall' = [AlarmRet("check_alarm", a, FALSE)
                                    EXCEPT !.early = TRUE]
                /\ UNCHANGED <<lastTriggered, history>>
           ELSE IF should_trigger /\ ~is_active(history, a)
           THEN /\ Len(history) < MaxEvents
                /\ lastTriggered' = [lastTriggered EXCEPT ![a] = Some(Now)]
                /\ history' = Append(history, NewEvent(a, value, Now))
                /\ alarmCall' = AlarmRet("check_alarm", a, TRUE)
           ELSE IF ~should_trigger /\ is_active(history, a)
           THEN /\ \E i \in MostRecentOpen(history, a) :
                        history' = ClearRow(history, i, Now)
                /\ alarmCall' = AlarmRet("check_alarm", a, FALSE)
                /\ UNCHANGED lastTriggered
           ELSE /\ alarmCall' = AlarmRet("check_alarm", a, FALSE)
                /\ UNCHANGED <<lastTriggered, history>>

\* An acknowledge_alarm that stamps the row whether or not it is already
\* acknowledged.
AcknowledgeAgain(id, who) ==
    /\ UNCHANGED <<trend, alarmEnabled, lastTriggered, checking>>
    /\ UNCHANGED <<connVars, dataVars, pollVars>>
    /\ IF id \notin 1..Len(history)
       THEN /\ alarmCall' = AlarmRet("acknowledge_alarm", id, FALSE)
            /\ UNCHANGED history
       ELSE /\ history' = [history EXCEPT
                              ![id].acknowledged = TRUE,
                              ![id].acknowledged_at = Some(Now),
                              ![id].acknowledged_by = IF who = "" THEN "system" ELSE who]
            /\ alarmCall' = AlarmRet("acknowledge_alarm", id, TRUE)

\* AlarmChecker.acknowledge_alarm(alarm_history_id, acknowledged_by)
acknowledge_alarm(id, who) ==
    /\ UNCHANGED <<trend, alarmEnabled, lastTriggered, checking>>
    /\ UNCHANGED <<connVars, dataVars, pollVars>>
    /\ IF id \notin 1..Len(history) \/ history[id].acknowledged
       THEN /\ alarmCall' = AlarmRet("acknowledge_alarm", id, FALSE)
            /\ UNCHANGED history
       ELSE /\ history' = [history EXCEPT
                              ![id].acknowledged = TRUE,
                              ![id].acknowledged_at = Some(Now),
                              ![id].acknowledged_by = IF who = "" THEN "system" ELSE who]
            /\ alarmCall' = AlarmRet("acknowledge_alarm", id, TRUE)

\* AlarmViewSet.acknowledge: the API acknowledges the alarm's most recent
\* open row, acknowledged before or not; 404 when the alarm has none.
acknowledge(a, user) ==
    /\ UNCHANGED <<trend, alarmEnabled, lastTriggered, checking>>
    /\ UNCHANGED <<connVars, dataVars, pollVars>>
    /\ IF MostRecentOpen(history, a) = {}
       THEN /\ alarmCall' = AlarmRet("acknowledge", a, FALSE)
            /\ UNCHANGED history
       ELSE /\ \E i \in MostRecentOpen(history, a) :
                   history' = [history EXCEPT ![i].acknowledged = TRUE,
                                              ![i].acknowledged_at = Some(Now),
                                              ![i].acknowledged_by = user]
            /\ alarmCall' = AlarmRet("acknowledge", a, TRUE)

\* check_alarm as check_all_alarms calls it, on the history and
\* last_triggered values given: these afterwards and the value returned.
CheckAlarmOn(st, a) ==
    LET cfg == AlarmCfg(a)
        k == LatestGood(trend)
        value == trend[k].value
        should_trigger == _evaluate_condition(cfg.condition, value,
                              cfg.threshold_high, cfg.threshold_low, cfg.hysteresis)
        same == [history |-> st.history, lastTriggered |-> st.lastTriggered,
                 ret |-> FALSE]
    IN  IF ReturnsEarly(alarmEnabled[a], k)
        THEN same
        ELSE IF should_trigger /\ ~is_active(st.history, a)
        THEN [history |-> Append(st.history, NewEvent(a, value, Now)),
              lastTriggered |-> [st.lastTriggered EXCEPT ![a] = Some(Now)],
              ret |-> TRUE]
        ELSE IF ~should_trigger /\ is_active(st.history, a)
        THEN [same EXCEPT !.history =
                 ClearRow(st.history, CHOOSE i \in MostRecentOpen(st.history, a) : TRUE,
                          Now)]
        ELSE same

\* The loop of check_all_alarms over the alarms with ids a..3 (queryset
\* order): every check_alarm that returns counts as checked, one that raises
\* as an error. acc carries the state and the counters.
RECURSIVE CheckFrom(_, _)
CheckFrom(a, acc) ==
    IF a \notin ConfiguredAlarms
    THEN acc
    ELSE IF ~alarmEnabled[a]
    THEN CheckFrom(a + 1, acc)
    ELSE LET c == CheckAlarmOn(acc, a)
         IN  CheckFrom(a + 1,
                       [history |-> c.history, lastTriggered |-> c.lastTriggered,
                        checked |-> acc.checked + 1,
                        triggered |-> acc.triggered + (IF c.ret THEN 1 ELSE 0),
                        errors |-> acc.errors])

\* AlarmChecker.check_all_alarms, run to completion by the check_alarms task.
check_all_alarms ==
    LET res == CheckFrom(1, [history |-> history, lastTriggered |-> lastTriggered,
                             checked |-> 0, triggered |-> 0, errors |-> 0])
    IN  /\ Len(res.history) <= MaxEvents
        /\ history' = res.history
        /\ lastTriggered' = res.lastTriggered
        /\ alarmCall' = [AlarmRet("check_all_alarms", 0, FALSE) EXCEPT
                             !.checked = res.checked,
                             !.triggered = res.triggered,
                             !.errors = res.errors]
        /\ UNCHANGED <<trend, alarmEnabled, checking>>
        /\ UNCHANGED <<connVars, dataVars, pollVars>>

\* check_alarm by worker t up to the test of alarm.is_active(): the early
\* returns and the case that needs no change end the call; otherwise the
\* worker has decided to trigger or to clear and has still to write.
BeginCheckAlarm(t, a) ==
    LET cfg == AlarmCfg(a)
        k == LatestGood(trend)
        value == trend[k].value
        should_trigger == _evaluate_condition(cfg.condition, value,
                              cfg.threshold_high, cfg.threshold_low, cfg.hysteresis)
    IN  /\ checking[t] = None
        /\ IF ReturnsEarly(alarmEnabled[a], k)
           THEN /\ alarmCall' = [AlarmRet("check_alarm", a, FALSE)
                                    EXCEPT !.early = TRUE]
                /\ UNCHANGED checking
           ELSE IF should_trigger /\ ~is_active(history, a)
           THEN /\ checking' = [checking EXCEPT
                                   ![t] = Some([alarm |-> a, value |-> value,
                                                todo |-> "trigger"])]
                /\ UNCHANGED alarmCall
           ELSE IF ~should_trigger /\ is_active(history, a)
           THEN /\ checking' = [checking EXCEPT
                                   ![t] = Some([alarm |-> a, value |-> value,
                                                todo |-> "clear"])]
                /\ UNCHANGED alarmCall
           ELSE /\ alarmCall' = AlarmRet("check_alarm", a, FALSE)
                /\ UNCHANGED checking
        /\ UNCHANGED <<trend, alarmEnabled, lastTriggered, history>>
        /\ UNCHANGED <<connVars, dataVars, pollVars>>

\* The rest of check_alarm by worker t: _trigger_alarm stamps last_triggered
\* and creates the AlarmHistory row; _clear_alarm looks the most recent open
\* row up and stamps it, if there is one.
FinishCheckAlarm(t) ==
    /\ checking[t] # None
    /\ LET c == Get(checking[t])
       IN  IF c.todo = "trigger"
           THEN /\ Len(history) < MaxEvents
                /\ lastTriggered' = [lastTriggered EXCEPT ![c.alarm] = Some(Now)]
                /\ history' = Append(history, NewEvent(c.alarm, c.value, Now))
                /\ alarmCall' = AlarmRet("check_alarm", c.alarm, TRUE)
           ELSE /\ IF MostRecentOpen(history, c.alarm) = {}
                   THEN UNCHANGED history
                   ELSE \E i \in MostRecentOpen(history, c.alarm) :
                           history' = ClearRow(history, i, Now)
                /\ alarmCall' = AlarmRet("check_alarm", c.alarm, FALSE)
                /\ UNCHANGED lastTriggered
    /\ checking' = [checking EXCEPT ![t] = None]
    /\ UNCHANGED <<trend, alarmEnabled>>
    /\ UNCHANGED <<connVars, dataVars, pollVars>>

\* ------------------------------------------------------------------
\* DEVICE POLLING
\* The clock counts seconds. A register's id is 10 * device + position.
\* ------------------------------------------------------------------

\* Device.polling_interval, in seconds.
polling_interval(d) == IF d = 1 THEN 2 ELSE 1

RegisterId(d, k) == 10 * d + k

\* The runtime fields of a Device row as created.
NewDevice == [connection_status |-> "offline", last_poll |-> None, error_count |-> 0]

\* What the last polling task did, and the time now it ran at: for
\* poll_device_registers the path taken
\* ("not_found", "interface_disabled", "no_data", "stored"), the registers it
\* tried to read and the ones read; for poll_all_devices the devices it
\* dispatched a poll for.
NoPollCall ==
    [op |-> "none", now |-> 0, device |-> 0, path |-> "none",
     attempts |-> <<>>, results |-> {}, dispatched |-> {}]

\* The record kept of a device's polls: runs counts them; any counts the
\* latest polls in a row that stored no sample, whatever their path; ran
\* counts those among them that read the device (path "no_data").
NoTrail == [runs |-> 0, any |-> 0, ran |-> 0]

Trail(t, path) ==
    IF path = "stored"
    THEN [runs |-> t.runs + 1, any |-> 0, ran |-> 0]
    ELSE [runs |-> t.runs + 1, any |-> t.any + 1,
          ran |-> IF path = "no_data" THEN t.ran + 1 ELSE t.ran]

PollInit ==
    /\ clock = 0
    /\ devState = [d \in Devices |-> NewDevice]
    /\ queue = {}
    /\ pollCall = NoPollCall
    /\ trail = [d \in Devices |-> NoTrail]

\* ------------------------------------------------------------------
\* DIRECT CALLS OF THE CONDITION EVALUATOR
\* _evaluate_condition is a pure method: it is called here on arguments
\* drawn from bounded sets, independently of any stored alarm.
\* ------------------------------------------------------------------

\* Alarm.CONDITION_CHOICES, and one name that is not among them.
Conditions == {"greater_than", "less_than", "equals", "not_equals", "range"}
ConditionNames == Conditions \cup {"between"}

EvalValues == ((0 - MaxValue)..MaxValue) \cup {5, 9, 30, 54, 56}
EvalHighs == (0..MaxValue) \cup {50}
EvalLows == {None} \cup {Some(x) : x \in (0..MaxValue) \cup {10}}
EvalHysteresis == (0..MaxHysteresis) \cup {5}

EvalArgs ==
    [condition : ConditionNames, value : EvalValues, threshold_high : EvalHighs,
     threshold_low : EvalLows, hysteresis : EvalHysteresis]

\* No call made yet.
NoEval == [args |-> None, ret |-> None]

\* self._evaluate_condition(condition, value, threshold_high, threshold_low,
\* hysteresis) on the arguments chosen for this behaviour.
EvaluateCondition ==
    /\ evalCall.args # None
    /\ evalCall.ret = None
    /\ LET a == Get(evalCall.args)
       IN  evalCall' = [evalCall EXCEPT
                           !.ret = Some(_evaluate_condition(a.condition, a.value,
                                            a.threshold_high, a.threshold_low,
                                            a.hysteresis))]
    /\ UNCHANGED <<rawData, aggregated, aggCall>>
    /\ UNCHANGED <<connVars, alarmVars, pollVars>>

\* ------------------------------------------------------------------
\* DIRECT CALLS OF THE REGISTER DECODER
\* convert_registers_to_value is a pure method as well: the call record
\* holds its arguments and what it returned.
\* ------------------------------------------------------------------

\* Register.DATA_TYPE_CHOICES, and one name that is not among them.
DataTypes == {"INT16", "UINT16", "INT32", "UINT32", "FLOAT32", "BOOL", "AUTO", "INT64"}

\* Words around the sign boundary and the two examples 100 and 65436.
SomeWords == {0, 1, 100, WordRange \div 2 - 1, WordRange \div 2, 65436, WordRange - 1}

\* Every single word decoded as a 16-bit type, and lists of no, one or two
\* of the chosen words decoded as every type in every byte and word order.
DecodeArgs ==
    [registers : {<<w>> : w \in Words}, data_type : {"INT16", "UINT16"},
     byte_order : {"big"}, word_order : {"high_low"}]
    \cup
    [registers : {<<>>} \cup {<<w>> : w \in SomeWords} \cup (SomeWords \X SomeWords),
     data_type : DataTypes, byte_order : {"big", "little"},
     word_order : {"high_low", "low_high"}]

\* driver.convert_registers_to_value(registers, data_type, byte_order,
\* word_order) on the arguments chosen for this behaviour.
ConvertRegisters ==
    /\ evalCall.args # None
    /\ evalCall.ret = None
    /\ LET a == Get(evalCall.args)
       IN  evalCall' = [evalCall EXCEPT
                           !.ret = Some(convert_registers_to_value(a.registers,
                                            a.data_type, a.byte_order, a.word_order))]
    /\ UNCHANGED <<rawData, aggregated, aggCall>>
    /\ UNCHANGED <<connVars, alarmVars, pollVars>>

\* ------------------------------------------------------------------
\* DATA AGGREGATOR
\* The clock unit is half an hour, so that a sample can fall inside an
\* hour bucket after its start.  A float average is modelled by the exact
\* fraction <<numerator, denominator>> in lowest terms; floating-point
\* rounding is not modelled.
\* ------------------------------------------------------------------

\* timedelta(hours=1), timedelta(days=1) and timedelta(days=7)
Hour == 2
Day == 24 * Hour
Week == 7 * Day

\* The register the aggregation runs are made for, and the registers that
\* have samples stored.
AggRegisters == {1}
SampleRegisters == {1, 2}
SampleTimes == {0, 1, Hour}
AggValues == {10, 20}
AggQualities == {"good", "bad", "uncertain"}
HourStarts == {0, Hour}
DayStarts == {0}
WeekStarts == {0}

\* TrendDataAggregated.INTERVAL_CHOICES with the bucket starts the runs use:
\* the values of unique_together (register, interval, timestamp).
AggKeys ==
    (SampleRegisters \X {"hourly"} \X (HourStarts \cup {Day}))
        \cup (SampleRegisters \X {"daily"} \X (DayStarts \cup {Day}))
        \cup (SampleRegisters \X {"weekly"} \X WeekStarts)

\* A TrendData row without its id; rawData maps a row to the number of
\* stored rows with these values.
Sample(register, timestamp, converted_value, quality) ==
    [register |-> register, timestamp |-> timestamp,
     converted_value |-> converted_value, quality |-> quality]

\* TrendData.objects.create(...)
InsertSample(raw, row) ==
    IF row \in DOMAIN raw
    THEN [raw EXCEPT ![row] = @ + 1]
    ELSE raw @@ (row :> 1)

RECURSIVE Sum(_, _)
Sum(f, S) ==
    IF S = {} THEN 0
    ELSE LET x == CHOOSE y \in S : TRUE
         IN  f[x] + Sum(f, S \ {x})

RowCount(raw) == Sum(raw, DOMAIN raw)

Min(S) == CHOOSE m \in S : \A x \in S : m <= x
Max(S) == CHOOSE m \in S : \A x \in S : m >= x

RECURSIVE GCD(_, _)
GCD(a, b) == IF b = 0 THEN a ELSE GCD(b, a % b)

\* The fraction n/d (d > 0) in lowest terms.
Rat(n, d) == LET g == GCD(Abs(n), d) IN <<n \div g, d \div g>>
RatAdd(p, q) == Rat(p[1] * q[2] + q[1] * p[2], p[2] * q[2])

RECURSIVE RatSum(_, _)
RatSum(f, S) ==
    IF S = {} THEN Rat(0, 1)
    ELSE LET x == CHOOSE y \in S : TRUE
         IN  RatAdd(f[x], RatSum(f, S \ {x}))

Aggregate(min_value, max_value, avg_value, sample_count) ==
    [min_value |-> min_value, max_value |-> max_value,
     avg_value |-> avg_value, sample_count |-> sample_count]

\* The filter of aggregate_hourly with the upper end of the window included.
HourlyDataClosedWindow(raw, register, start_time) ==
    {x \in DOMAIN raw : /\ x.register = register
                        /\ x.timestamp >= start_time
                        /\ x.timestamp <= start_time + Hour
                        /\ x.quality = "good"}

\* TrendData.objects.filter(register=register, timestamp__gte=start_time,
\*                          timestamp__lt=end_time, quality='good')
HourlyData(raw, register, start_time) ==
    {x \in DOMAIN raw : /\ x.register = register
                        /\ x.timestamp >= start_time
                        /\ x.timestamp < start_time + Hour
                        /\ x.quality = "good"}

\* data.aggregate(Min('converted_value'), Max('converted_value'),
\*                Avg('converted_value'), Count('id'))
AggregateRaw(raw, data) ==
    LET n == Sum(raw, data)
        total == Sum([x \in data |-> raw[x] * x.converted_value], data)
    IN  Aggregate(Min({x.converted_value : x \in data}),
                  Max({x.converted_value : x \in data}),
                  Rat(total, n), n)

\* AggregateTier with the average weighted by the sample counts of the rows.
AggregateTierWeighted(table, data) ==
    LET n == Cardinality(data)
        row(ref) == table[ref[1]][ref[2]]
        samples == Sum([ref \in data |-> row(ref).sample_count], data)
        total == RatSum([ref \in data |->
                            Rat(row(ref).avg_value[1] * row(ref).sample_count,
                                row(ref).avg_value[2])], data)
    IN  Aggregate(Min({row(ref).min_value : ref \in data}),
                  Max({row(ref).max_value : ref \in data}),
                  Rat(total[1], total[2] * samples), n)

\* TrendDataAggregated.objects.filter(register=register, interval=interval,
\*     timestamp__gte=start_time, timestamp__lt=end_time): the rows as
\* <<key, position>> references into the table.
TierData(table, register, interval, start_time, end_time) ==
    {ref \in UNION {{k} \X (1..Len(table[k])) : k \in AggKeys} :
        /\ ref[1][1] = register
        /\ ref[1][2] = interval
        /\ ref[1][3] >= start_time
        /\ ref[1][3] < end_time}

\* lower_tier.aggregate(Min('min_value'), Max('max_value'), Avg('avg_value'),
\*                      Count('id'))
AggregateTier(table, data) ==
    LET n == Cardinality(data)
        row(ref) == table[ref[1]][ref[2]]
        total == RatSum([ref \in data |-> row(ref).avg_value], data)
    IN  Aggregate(Min({row(ref).min_value : ref \in data}),
                  Max({row(ref).max_value : ref \in data}),
                  Rat(total[1], total[2] * n), n)

\* objects.create(**key, **defaults) in place of update_or_create.
CreateRow(table, key, defaults) ==
    [table |-> [table EXCEPT ![key] = Append(@, defaults)],
     created |-> TRUE, replaced |-> None, raised |-> FALSE]

\* TrendDataAggregated.objects.update_or_create(register=, interval=,
\*     timestamp=, defaults=): creates the row when no row has the key,
\* updates the row when one has, raises MultipleObjectsReturned otherwise.
update_or_create(table, key, defaults) ==
    CASE Len(table[key]) = 0 ->
            [table |-> [table EXCEPT ![key] = <<defaults>>],
             created |-> TRUE, replaced |-> None, raised |-> FALSE]
      [] Len(table[key]) = 1 ->
            [table |-> [table EXCEPT ![key] = <<defaults>>],
             created |-> FALSE, replaced |-> Some(table[key][1]),
             raised |-> FALSE]
      [] OTHER ->
            [table |-> table, created |-> FALSE, replaced |-> None,
             raised |-> TRUE]

\* What an aggregation run did: the table it leaves, the number it returns
\* (ret, meaningless when it raised) and what update_or_create reported.
AggResult(table, ret, up) ==
    [table |-> table, ret |-> ret, created |-> up.created,
     replaced |-> up.replaced, raised |-> up.raised]

NoUpsert == [created |-> FALSE, replaced |-> None, raised |-> FALSE]

\* DataAggregator.aggregate_hourly(register, start_time)
AggregateHourly(raw, table, register, start_time) ==
    LET data == HourlyData(raw, register, start_time)
    IN  IF data = {}
        THEN AggResult(table, 0, NoUpsert)
        ELSE LET up == update_or_create(table,
                           <<register, "hourly", start_time>>,
                           AggregateRaw(raw, data))
             IN  AggResult(up.table, 1, up)

\* DataAggregator.aggregate_daily(register, start_time)
AggregateDaily(table, register, start_time) ==
    LET hourly_data == TierData(table, register, "hourly",
                                start_time, start_time + Day)
    IN  IF hourly_data = {}
        THEN AggResult(table, 0, NoUpsert)
        ELSE LET up == update_or_create(table,
                           <<register, "daily", start_time>>,
                           AggregateTier(table, hourly_data))
             IN  AggResult(up.table, 1, up)

\* DataAggregator.aggregate_weekly(register, start_time)
AggregateWeekly(table, register, start_time) ==
    LET daily_data == TierData(table, register, "daily",
                               start_time, start_time + Week)
    IN  IF daily_data = {}
        THEN AggResult(table, 0, NoUpsert)
        ELSE LET up == update_or_create(table,
                           <<register, "weekly", start_time>>,
                           AggregateTier(table, daily_data))
             IN  AggResult(up.table, 1, up)

NoAggCall ==
    [op |-> "none", register |-> 0, start_time |-> 0, ret |-> 0,
     created |-> FALSE, replaced |-> None, raised |-> FALSE,
     days |-> <<0, 0, 0>>, deleted |-> <<0, 0, 0>>]

AggRet(op, register, start_time, res) ==
    [op |-> op, register |-> register, start_time |-> start_time,
     ret |-> res.ret, created |-> res.created, replaced |-> res.replaced,
     raised |-> res.raised, days |-> <<0, 0, 0>>, deleted |-> <<0, 0, 0>>]

\* The five good samples 10, 20, 30, 40, 50 of register 1 within the first
\* hour.
FiveSamples ==
    [x \in {Sample(1, 0, 10, "good"), Sample(1, 0, 20, "good"),
            Sample(1, 1, 30, "good"), Sample(1, 1, 40, "good"),
            Sample(1, 1, 50, "good")} |-> 1]

EmptyTable == [x \in {} |-> 0]

\* Hourly rows as aggregate_hourly leaves them: five samples of 10, one
\* sample of 30, and the two samples 10 and 20.
HourlyRows ==
    {Aggregate(10, 10, <<10, 1>>, 5), Aggregate(30, 30, <<30, 1>>, 1),
     Aggregate(10, 20, <<15, 1>>, 2)}

AggInit ==
    /\ rawData = EmptyTable
    /\ aggregated = [k \in AggKeys |-> <<>>]
    /\ aggCall = NoAggCall

\* One more TrendData row is stored: by the poller (quality good) or through
\* the admin site (any quality).
StoreSample(r, ts, v, q) ==
    /\ RowCount(rawData) < MaxRaw
    /\ rawData' = InsertSample(rawData, Sample(r, ts, v, q))
    /\ UNCHANGED <<evalCall, aggregated, aggCall>>
    /\ UNCHANGED <<connVars, alarmVars, pollVars>>

aggregate_hourly(r, s) ==
    LET res == AggregateHourly(rawData, aggregated, r, s)
    IN  /\ aggregated' = res.table
        /\ aggCall' = AggRet("aggregate_hourly", r, s, res)
        /\ UNCHANGED <<evalCall, rawData>>
        /\ UNCHANGED <<connVars, alarmVars, pollVars>>

aggregate_daily(r, s) ==
    LET res == AggregateDaily(aggregated, r, s)
    IN  /\ aggregated' = res.table
        /\ aggCall' = AggRet("aggregate_daily", r, s, res)
        /\ UNCHANGED <<evalCall, rawData>>
        /\ UNCHANGED <<connVars, alarmVars, pollVars>>

aggregate_weekly(r, s) ==
    LET res == AggregateWeekly(aggregated, r, s)
    IN  /\ aggregated' = res.table
        /\ aggCall' = AggRet("aggregate_weekly", r, s, res)
        /\ UNCHANGED <<evalCall, rawData>>
        /\ UNCHANGED <<connVars, alarmVars, pollVars>>

\* filter(interval=interval, timestamp__lt=cutoff): the keys of the rows.
OlderThan(table, interval, cutoff) ==
    {k \in AggKeys : k[2] = interval /\ k[3] < cutoff}

\* cleanup_old_data with the hourly filter also applied to the weekly rows.
CleanupAllTiers(raw, table, now, raw_data_days, hourly_data_days, daily_data_days) ==
    LET raw_cutoff == now - raw_data_days * Day
        old_raw == {x \in DOMAIN raw : x.timestamp < raw_cutoff}
        hourly == OlderThan(table, "hourly", now - hourly_data_days * Day)
                      \cup OlderThan(table, "weekly", now - hourly_data_days * Day)
        daily == OlderThan(table, "daily", now - daily_data_days * Day)
    IN  [raw |-> [x \in DOMAIN raw \ old_raw |-> raw[x]],
         table |-> [k \in AggKeys |->
                       IF k \in hourly \cup daily THEN <<>> ELSE table[k]],
         raw_deleted |-> Sum(raw, old_raw),
         hourly_deleted |-> Sum([k \in hourly |-> Len(table[k])], hourly),
         daily_deleted |-> Sum([k \in daily |-> Len(table[k])], daily)]

\* DataAggregator.cleanup_old_data(raw_data_days, hourly_data_days,
\* daily_data_days) at the time now: the tables it leaves and the three
\* counts of its dict.
CleanupOldData(raw, table, now, raw_data_days, hourly_data_days, daily_data_days) ==
    LET raw_cutoff == now - raw_data_days * Day
        old_raw == {x \in DOMAIN raw : x.timestamp < raw_cutoff}
        hourly == OlderThan(table, "hourly", now - hourly_data_days * Day)
        daily == OlderThan(table, "daily", now - daily_data_days * Day)
    IN  [raw |-> [x \in DOMAIN raw \ old_raw |-> raw[x]],
         table |-> [k \in AggKeys |->
                       IF k \in hourly \cup daily THEN <<>> ELSE table[k]],
         raw_deleted |-> Sum(raw, old_raw),
         hourly_deleted |-> Sum([k \in hourly |-> Len(table[k])], hourly),
         daily_deleted |-> Sum([k \in daily |-> Len(table[k])], daily)]

cleanup_old_data(now, raw_data_days, hourly_data_days, daily_data_days) ==
    LET res == CleanupOldData(rawData, aggregated, now, raw_data_days,
                              hourly_data_days, daily_data_days)
    IN  /\ rawData' = res.raw
        /\ aggregated' = res.table
        /\ aggCall' = [NoAggCall EXCEPT
                          !.op = "cleanup_old_data",
                          !.start_time = now,
                          !.days = <<raw_data_days, hourly_data_days,
                                     daily_data_days>>,
                          !.deleted = <<res.raw_deleted, res.hourly_deleted,
                                        res.daily_deleted>>]
        /\ UNCHANGED evalCall
        /\ UNCHANGED <<connVars, alarmVars, pollVars>>

\* The times cleanup runs at and the retention periods it is given, in days.
CleanupTimes == {Day, Day + Hour, 2 * Day}
RetentionDays == 0..MaxRetention

\* The store the cleanup runs start from: samples of both registers stamped
\* at the sample times and one day later (two of each at time 0), and a row
\* under every key.
CleanupSamples ==
    {Sample(r, ts, 10, "good") : r \in SampleRegisters, ts \in SampleTimes \cup {Day}}

CleanupInit ==
    /\ ConnInit
    /\ AlarmInit
    /\ PollInit
    /\ evalCall = NoEval
    /\ aggCall = NoAggCall
    /\ rawData = [x \in CleanupSamples |-> IF x.timestamp = 0 THEN 2 ELSE 1]
    /\ aggregated = [k \in AggKeys |-> <<Aggregate(10, 10, <<10, 1>>, 5)>>]

DataInit ==
    /\ evalCall = NoEval
    /\ AggInit

\* Device.update_status with the reset of error_count on "online" left out.
UpdateStatusKeepingCount(dev, status, now) ==
    [dev EXCEPT !.connection_status = status,
                !.last_poll = IF status = "online" THEN Some(now) ELSE @,
                !.error_count = IF status = "error" THEN @ + 1 ELSE @]

\* Device.update_status(status) at the time now.
update_status(dev, status, now) ==
    [dev EXCEPT !.connection_status = status,
                !.last_poll = IF status = "online" THEN Some(now) ELSE @,
                !.error_count = IF status = "online" THEN 0
                                ELSE IF status = "error" THEN @ + 1 ELSE @]

\* The answers the transport gives to the reads of a poll.
PollOutcomes == {<<"ok", "data">>, <<"ok", "error">>}

\* TrendData.objects.bulk_create: one good-quality sample stamped now per
\* register id of ids.
RECURSIVE BulkCreate(_, _, _)
BulkCreate(raw, ids, now) ==
    IF ids = {} THEN raw
    ELSE LET id == CHOOSE x \in ids : TRUE
         IN  BulkCreate(InsertSample(raw, Sample(id, now, 10, "good")),
                        ids \ {id}, now)

\* poll_device_registers(device_id) at the time now on the driver cache, the
\* device row and the sample table given: these afterwards, the path taken
\* and what was read.
PollDevice(cache, dev, raw, d, outs, now) ==
    LET same == [svc |-> cache, dev |-> dev, raw |-> raw, path |-> "not_found",
                 attempts |-> <<>>, results |-> {}]
        res == ReadEach(d, EnabledIds(d), outs, 1,
                        [svc |-> cache, attempts |-> <<>>, rets |-> <<>>,
                         results |-> {}])
    IN  IF ~DevCfg(d).enabled
        THEN same
        ELSE IF ~ifaceEnabled[DevCfg(d).iface]
        THEN [same EXCEPT !.path = "interface_disabled"]
        ELSE IF res.results = {}
        THEN [svc |-> res.svc, dev |-> update_status(dev, "error", now),
              raw |-> raw, path |-> "no_data",
              attempts |-> res.attempts, results |-> {}]
        ELSE [svc |-> res.svc, dev |-> update_status(dev, "online", now),
              raw |-> BulkCreate(raw, {RegisterId(d, k) : k \in res.results}, now),
              path |-> "stored",
              attempts |-> res.attempts, results |-> res.results]

\* A queued poll_device_registers task runs to completion.
poll_device_registers(d, outs) ==
    /\ d \in queue
    /\ trail[d].runs < MaxPolls
    /\ \E res \in {PollDevice(svc, devState[d], rawData, d, outs, clock)} :
          /\ queue' = queue \ {d}
          /\ svc' = res.svc
          /\ devState' = [devState EXCEPT ![d] = res.dev]
          /\ rawData' = res.raw
          /\ pollCall' = [NoPollCall EXCEPT !.op = "poll_device_registers",
                                            !.now = clock,
                                            !.device = d, !.path = res.path,
                                            !.attempts = res.attempts,
                                            !.results = res.results]
          /\ trail' = [trail EXCEPT ![d] = Trail(@, res.path)]
    /\ UNCHANGED <<ifaceEnabled, ifaceStatus, pool, stats, lastCall, thr>>
    /\ UNCHANGED <<evalCall, aggregated, aggCall>>
    /\ UNCHANGED clock
    /\ UNCHANGED alarmVars

\* The test of poll_all_devices with the interval not compared.
ShouldPollAlways(dev, d, now) == TRUE

\* should_poll of poll_all_devices for a device row at the time now.
should_poll(dev, d, now) ==
    IF dev.last_poll = None
    THEN TRUE
    ELSE now - Get(dev.last_poll) >= polling_interval(d)

\* Device.objects.filter(enabled=True, interface__enabled=True), and of
\* these the devices poll_all_devices dispatches a poll for.
Dispatched ==
    {d \in Devices : /\ DevCfg(d).enabled
                     /\ ifaceEnabled[DevCfg(d).iface]
                     /\ should_poll(devState[d], d, clock)}

\* poll_all_devices, run to completion: poll_device_registers.delay(id) for
\* every device that is due.
poll_all_devices ==
    /\ queue' = queue \cup Dispatched
    /\ pollCall' = [NoPollCall EXCEPT !.op = "poll_all_devices",
                                      !.now = clock,
                                      !.dispatched = Dispatched]
    /\ UNCHANGED <<clock, devState, trail>>
    /\ UNCHANGED <<connVars, alarmVars, dataVars>>

\* DeviceViewSet.poll_now: a poll of the device is queued on request.
poll_now(d) ==
    /\ d \notin queue
    /\ queue' = queue \cup {d}
    /\ UNCHANGED <<clock, devState, pollCall, trail>>
    /\ UNCHANGED <<connVars, alarmVars, dataVars>>

\* A second passes.
Tick ==
    /\ clock < MaxTime
    /\ clock' = clock + 1
    /\ UNCHANGED <<devState, queue, pollCall, trail>>
    /\ UNCHANGED <<connVars, alarmVars, dataVars>>

vars == <<connVars, alarmVars, dataVars, pollVars>>

Init == ConnInit /\ AlarmInit /\ DataInit /\ PollInit

AlarmNext ==
    \/ \E v \in SampleValues, q \in Qualities : AddSample(v, q)
    \/ \E a \in Alarms, b \in BOOLEAN : SetAlarmEnabled(a, b)
    \/ \E a \in Alarms : check_alarm(a)
    \/ \E id \in 1..(MaxEvents + 1), who \in AckArgs : acknowledge_alarm(id, who)
    \/ \E a \in Alarms, user \in ViewUsers : acknowledge(a, user)

\* The alarm engine driven sequentially: samples arrive, the check_alarms task
\* and operators' acknowledgements run one after another.
EvalInit ==
    /\ ConnInit
    /\ AlarmInit
    /\ PollInit
    /\ AggInit
    /\ evalCall \in {[args |-> Some(a), ret |-> None] : a \in EvalArgs}

DecodeInit ==
    /\ ConnInit
    /\ AlarmInit
    /\ PollInit
    /\ AggInit
    /\ evalCall \in {[args |-> Some(a), ret |-> None] : a \in DecodeArgs}

DecodeNext == ConvertRegisters

SpecDecode == DecodeInit /\ [][DecodeNext]_vars

EvalNext == EvaluateCondition

SpecEval == EvalInit /\ [][EvalNext]_vars

AggSpecInit ==
    /\ ConnInit
    /\ AlarmInit
    /\ PollInit
    /\ evalCall = NoEval
    /\ rawData \in {EmptyTable, FiveSamples}
    /\ aggregated = [k \in AggKeys |-> <<>>]
    /\ aggCall = NoAggCall

AggNext ==
    \/ \E r \in SampleRegisters, ts \in SampleTimes, v \in AggValues,
          q \in AggQualities : StoreSample(r, ts, v, q)
    \/ \E r \in AggRegisters, s \in HourStarts : aggregate_hourly(r, s)
    \/ \E r \in AggRegisters, s \in DayStarts : aggregate_daily(r, s)
    \/ \E r \in AggRegisters, s \in WeekStarts : aggregate_weekly(r, s)

SpecAgg == AggSpecInit /\ [][AggNext]_vars

\* The daily and weekly runs on a table of hourly rows left by earlier hourly
\* runs: per register and hour bucket no row or one of HourlyRows.
DailyInit ==
    /\ ConnInit
    /\ AlarmInit
    /\ PollInit
    /\ evalCall = NoEval
    /\ rawData = EmptyTable
    /\ aggCall = NoAggCall
    /\ aggregated \in
          {[k \in AggKeys |-> IF k[2] = "hourly" THEN f[k] ELSE <<>>] :
              f \in [{k \in AggKeys : k[2] = "hourly"}
                        -> {<<>>} \cup {<<row>> : row \in HourlyRows}]}

DailyNext ==
    \/ \E r \in SampleRegisters, s \in DayStarts : aggregate_daily(r, s)
    \/ \E r \in SampleRegisters, s \in WeekStarts : aggregate_weekly(r, s)

SpecDaily == DailyInit /\ [][DailyNext]_vars

CleanupNext ==
    \E now \in CleanupTimes, raw_data_days, hourly_data_days,
       daily_data_days \in RetentionDays :
        cleanup_old_data(now, raw_data_days, hourly_data_days, daily_data_days)

SpecCleanup == CleanupInit /\ [][CleanupNext]_vars

SchedNext ==
    \/ Tick
    \/ \E i \in Ifaces, b \in BOOLEAN : SetIfaceEnabled(i, b)
    \/ poll_all_devices
    \/ \E d \in Devices :
         \E outs \in [1..Len(EnabledIds(d)) -> PollOutcomes] :
             poll_device_registers(d, outs)

DevicePollNext ==
    \/ \E i \in Ifaces, b \in BOOLEAN : SetIfaceEnabled(i, b)
    \/ \E d \in Devices : poll_now(d)
    \/ \E d \in Devices :
         \E outs \in [1..Len(EnabledIds(d)) -> PollOutcomes] :
             poll_device_registers(d, outs)

SpecDevicePoll == Init /\ [][DevicePollNext]_vars

SpecSched == Init /\ [][SchedNext]_vars

OverlapNext ==
    \/ \E v \in SampleValues, q \in Qualities : AddSample(v, q)
    \/ \E t \in Threads, a \in Alarms : BeginCheckAlarm(t, a)
    \/ \E t \in Threads : FinishCheckAlarm(t)

\* Two workers running check_alarms tasks that overlap: each check_alarm is
\* split between its test of is_active() and its write.
SpecOverlap == Init /\ [][OverlapNext]_vars

SpecAlarm == Init /\ [][AlarmNext]_vars

AllAlarmsNext ==
    \/ \E v \in SampleValues, q \in Qualities : AddSample(v, q)
    \/ \E a \in ConfiguredAlarms, b \in BOOLEAN : SetAlarmEnabled(a, b)
    \/ \E a \in ConfiguredAlarms : check_alarm(a)
    \/ check_all_alarms

\* The check_alarms task over all alarm rows, the misconfigured one included.
SpecAllAlarms == Init /\ [][AllAlarmsNext]_vars

SeqNext ==
    \/ \E i \in Ifaces, b \in BOOLEAN : SetIfaceEnabled(i, b)
    \/ \E r \in Registers, co \in ConnectOutcomes, ro \in ReqOutcomes :
          read_register(r, co, ro)
    \/ \E r \in Registers, co \in ConnectOutcomes, ro \in ReqOutcomes :
          write_register(r, co, ro)
    \/ close_all_connections
    \/ \E i \in Ifaces, co \in ConnectOutcomes : GetConnection(i, co)
    \/ \E i \in Ifaces, co \in ConnectOutcomes, co2 \in ConnectOutcomes,
          ro \in ReqOutcomes : HealthCheck(i, co, co2, ro)
    \/ \E i \in Ifaces \cup {0}, co \in ConnectOutcomes : Reconnect(i, co)
    \/ close_all

\* The register service and the connection manager called one call at a
\* time (a worker running its tasks one after another).
SpecSeq == Init /\ [][SeqNext]_vars

PollNext ==
    \/ \E i \in Ifaces, b \in BOOLEAN : SetIfaceEnabled(i, b)
    \/ \E d \in Devices :
          \E outs \in [1..Len(EnabledIds(d)) -> ConnectOutcomes \X ReqOutcomes] :
              read_device_registers(d, outs)
    \/ \E r \in ConcRegisters, co \in ConnectOutcomes, ro \in ReqOutcomes :
          write_register(r, co, ro)
    \/ close_all_connections

CacheNext ==
    \/ \E i \in Ifaces, b \in BOOLEAN : SetIfaceEnabled(i, b)
    \/ \E i \in Ifaces : GetDriver(i)
    \/ \E r \in Registers, co \in ConnectOutcomes, ro \in ReqOutcomes :
          read_register(r, co, ro)
    \/ \E r \in Registers, co \in ConnectOutcomes, ro \in ReqOutcomes :
          write_register(r, co, ro)
    \/ close_all_connections

\* One RegisterService instance called one call at a time: get_driver,
\* read_register, write_register and close_all_connections in any order.
SpecCache == Init /\ [][CacheNext]_vars

DriverNext ==
    \/ \E i \in Ifaces : GetDriver(i)
    \/ \E r \in Registers, co \in ConnectOutcomes, ro \in ReqOutcomes :
          read_register(r, co, ro)
    \/ \E r \in Registers, co \in ConnectOutcomes, ro \in ReqOutcomes :
          write_register(r, co, ro)
    \/ \E i \in Ifaces, xo \in CloseOutcomes : Disconnect(i, xo)

\* The drivers of one RegisterService used and disconnected by its caller,
\* one call at a time.
SpecDriver == Init /\ [][DriverNext]_vars

\* The polling worker: poll_device_registers tasks reading whole devices,
\* with single-register writes and cache resets in between.
SpecPoll == Init /\ [][PollNext]_vars

(***************************************************************************)
(* CONCURRENT CALLERS                                                      *)
(* Worker threads share the register service and the connection manager    *)
(* (get_register_service, get_connection_manager); neither takes a lock.   *)
(* A call is split where it blocks on the transport.                       *)
(***************************************************************************)

ManagerOps == {"get_connection", "health_check"}

InCall(t, pc, op, i, fc) ==
    [Idle EXCEPT !.pc = pc, !.op = op, !.iface = i, !.fc = fc]

Done(t, op, i, fc, ret) == [InCall(t, "done", op, i, fc) EXCEPT !.ret = ret]

\* Thread t enters read_register / write_register for register r: the
\* checks, get_driver, and the driver operation up to the request it hands
\* to the client (co answers the implicit connect).
BeginRegisterCall(t, r, co) ==
    LET i == DevCfg(r.device).iface
        op == IF r.fc \in ReadCodes THEN "read_register" ELSE "write_register"
        s == IssueOp(get_driver(svc, i), r.fc, co)
    IN  /\ thr[t] = Idle
        /\ IF (IF r.fc \in ReadCodes THEN ReadRefused(r) ELSE WriteRefused(r))
           THEN /\ thr' = [thr EXCEPT ![t] = Done(t, op, i, r.fc, FailRet(r.fc))]
                /\ UNCHANGED svc
           ELSE /\ svc' = [svc EXCEPT ![i] = Some(s.drv)]
                /\ thr' = [thr EXCEPT ![t] =
                              IF s.requested
                              THEN InCall(t, "waiting", op, i, r.fc)
                              ELSE Done(t, op, i, r.fc, FailRet(r.fc))]
        /\ UNCHANGED <<ifaceEnabled, ifaceStatus, pool, stats, lastCall>>
        /\ UNCHANGED <<alarmVars, dataVars, pollVars>>

\* The client answers thread t's request with ro and the call returns.
EndRegisterCall(t, ro) ==
    LET i == thr[t].iface
        a == AnswerOp(Get(svc[i]), thr[t].fc, ro)
    IN  /\ thr[t].pc = "waiting"
        /\ svc' = [svc EXCEPT ![i] = Some(a.drv)]
        /\ thr' = [thr EXCEPT ![t] = Done(t, thr[t].op, i, thr[t].fc, a.ret)]
        /\ UNCHANGED <<ifaceEnabled, ifaceStatus, pool, stats, lastCall>>
        /\ UNCHANGED <<alarmVars, dataVars, pollVars>>

\* The threads that are between the pool lookup and _create_connection for
\* interface i.
Creating(i) == {u \in Threads : thr[u].pc = "creating" /\ thr[u].iface = i}

\* Thread t enters get_connection, directly or from health_check: the
\* enabled check and the pool lookup. A disabled interface and a live pooled
\* driver end the call (health_check running its probe); a miss leaves the
\* thread about to create the connection.
BeginManagerCall(t, op, i, co2, ro) ==
    LET hit == [m |-> Mgr, ret |-> pool[i]]
        h == HealthCheckWith(hit, i, co2, ro)
    IN  /\ thr[t] = Idle
        /\ IF ~ifaceEnabled[i]
           THEN IF op = "get_connection"
                THEN /\ thr' = [thr EXCEPT ![t] = Done(t, op, i, 0, "raised")]
                     /\ UNCHANGED <<pool, stats, ifaceStatus>>
                ELSE /\ thr' = [thr EXCEPT ![t] = Done(t, op, i, 0, "False")]
                     /\ SetMgr(HealthCheckFailed(Mgr, i))
           ELSE IF pool[i] # None /\ _test_connection(Get(pool[i]))
           THEN IF op = "get_connection"
                THEN /\ thr' = [thr EXCEPT ![t] = Done(t, op, i, 0, "driver")]
                     /\ UNCHANGED <<pool, stats, ifaceStatus>>
                ELSE /\ thr' = [thr EXCEPT ![t] = Done(t, op, i, 0, BoolRet(h.ret))]
                     /\ SetMgr(h.m)
           ELSE /\ SetMgr(_close_connection(Mgr, i))
                /\ thr' = [u \in Threads |->
                              IF u = t
                              THEN [InCall(t, "creating", op, i, 0)
                                       EXCEPT !.overlap = Creating(i) # {}]
                              ELSE IF u \in Creating(i)
                              THEN [thr[u] EXCEPT !.overlap = TRUE]
                              ELSE thr[u]]
        /\ UNCHANGED <<ifaceEnabled, svc, lastCall>>
        /\ UNCHANGED <<alarmVars, dataVars, pollVars>>

\* Thread t runs _create_connection and the call returns or raises; inside
\* health_check the probe, or the except branch, follows.
FinishManagerCall(t, co, co2, ro) ==
    LET i == thr[t].iface
        c == _create_connection(Mgr, i, co)
        h == HealthCheckWith(c, i, co2, ro)
        ret == IF thr[t].op = "health_check" THEN BoolRet(h.ret)
               ELSE IF c.ret = None THEN "raised" ELSE "driver"
    IN  /\ thr[t].pc = "creating"
        /\ SetMgr(IF thr[t].op = "health_check" THEN h.m ELSE c.m)
        /\ thr' = [thr EXCEPT ![t] = [@ EXCEPT !.pc = "done", !.ret = ret,
                                              !.built = c.built,
                                              !.connects = c.connects]]
        /\ UNCHANGED <<ifaceEnabled, svc, lastCall>>
        /\ UNCHANGED <<alarmVars, dataVars, pollVars>>

\* The caller takes the result and the thread is free for the next task.
Return(t) ==
    /\ thr[t].pc = "done"
    /\ thr' = [thr EXCEPT ![t] = Idle]
    /\ UNCHANGED <<ifaceEnabled, ifaceStatus, svc, pool, stats, lastCall>>
    /\ UNCHANGED <<alarmVars, dataVars, pollVars>>

ConcNext ==
    \/ \E i \in Ifaces, b \in BOOLEAN : SetIfaceEnabled(i, b)
    \/ \E t \in Threads, r \in ConcRegisters, co \in ConnectOutcomes :
          BeginRegisterCall(t, r, co)
    \/ \E t \in Threads, ro \in ReqOutcomes : EndRegisterCall(t, ro)
    \/ \E t \in Threads, op \in ManagerOps, i \in Ifaces, co2 \in ConnectOutcomes,
          ro \in ReqOutcomes : BeginManagerCall(t, op, i, co2, ro)
    \/ \E t \in Threads, co \in ConnectOutcomes, co2 \in ConnectOutcomes,
          ro \in ReqOutcomes : FinishManagerCall(t, co, co2, ro)
    \/ \E t \in Threads : Return(t)

\* Two worker threads calling into the shared register service and
\* connection manager at the same time.
SpecConc == Init /\ [][ConcNext]_vars

(***************************************************************************)
(* Claims about the alarm engine.                                          *)
(***************************************************************************)

\* The open AlarmHistory rows (cleared_at null) of alarm a in table h.
OpenOf(h, a) == {i \in DOMAIN h : h[i].alarm = a /\ h[i].cleared_at = None}

\* A good-quality sample exists, and the value of the latest one.
HasGood == \E i \in DOMAIN trend : trend[i].quality = "good"
LatestGoodValue ==
    LET good == {i \in DOMAIN trend : trend[i].quality = "good"}
        last == CHOOSE i \in good : \A j \in good : j <= i
    IN  trend[last].value

\* The alarm's configured condition holds for value v.
ConditionHolds(a, v) ==
    _evaluate_condition(AlarmCfg(a).condition, v, AlarmCfg(a).threshold_high,
                        AlarmCfg(a).threshold_low, AlarmCfg(a).hysteresis)

\* C4: under sequential check_alarm calls, samples and acknowledgements, every
\* alarm has at most one AlarmHistory row with cleared_at null.
C4_SingleOpenEvent == \A a \in Alarms : Cardinality(OpenOf(history, a)) <= 1

\* C4 witness: check_alarm ran on alarm 1 while it was active and its condition
\* still held (it returned false and the single open row is still there).
C4_Witness ==
    /\ alarmCall = AlarmRet("check_alarm", 1, FALSE)
    /\ alarmEnabled[1] /\ HasGood /\ ConditionHolds(1, LatestGoodValue)
    /\ Cardinality(OpenOf(history, 1)) = 1
    /\ \E i \in OpenOf(history, 1) : history[i].triggered_at < Now

\* C5: check_alarm returns true exactly when the alarm is enabled, a good sample
\* exists, the condition holds for the latest good sample and the alarm is not
\* active; it then appends exactly one open, unacknowledged row carrying that
\* sample's value and stamps last_triggered; otherwise it returns false and
\* appends no row.
C5_Fires(a) ==
    /\ alarmEnabled[a]
    /\ HasGood
    /\ ConditionHolds(a, LatestGoodValue)
    /\ OpenOf(history, a) = {}

C5_EdgeTriggered ==
    [][\A a \in Alarms : check_alarm(a) =>
          /\ alarmCall'.ret = C5_Fires(a)
          /\ C5_Fires(a) =>
                /\ Len(history') = Len(history) + 1
                /\ SubSeq(history', 1, Len(history)) = history
                /\ history'[Len(history')].alarm = a
                /\ history'[Len(history')].trigger_value = LatestGoodValue
                /\ history'[Len(history')].cleared_at = None
                /\ history'[Len(history')].acknowledged = FALSE
                /\ lastTriggered'[a] = Some(Now)
          /\ ~C5_Fires(a) => Len(history') = Len(history)]_vars

\* C5 witness: a check_alarm on alarm 1 just returned true for the sample 56.
C5_Witness ==
    /\ alarmCall = AlarmRet("check_alarm", 1, TRUE)
    /\ Len(history) = 2
    /\ history[2].alarm = 1 /\ history[2].trigger_value = 56
    /\ history[2].cleared_at = None /\ ~history[2].acknowledged
    /\ lastTriggered[1] = Some(Now)

\* C6: on an enabled, active alarm whose condition no longer holds for the
\* latest good sample, check_alarm stamps cleared_at on the most recent open
\* event, returns false and leaves the alarm inactive; clearing uses the
\* hysteresis-shifted condition: greater_than 50 with hysteresis 5 (alarm 1)
\* stays active at 56 and clears at 55.
C6_Clears ==
    [][\A a \in Alarms :
          (check_alarm(a) /\ alarmEnabled[a] /\ HasGood /\ OpenOf(history, a) # {}) =>
             /\ ~ConditionHolds(a, LatestGoodValue) =>
                   /\ alarmCall'.ret = FALSE
                   /\ OpenOf(history', a) = {}
                   /\ \A i \in OpenOf(history, a) :
                         (\A j \in OpenOf(history, a) :
                              history[j].triggered_at <= history[i].triggered_at)
                            => history'[i].cleared_at = Some(Now)
             /\ (a = 1 /\ LatestGoodValue = 56) => OpenOf(history', a) # {}
             /\ (a = 1 /\ LatestGoodValue = 55) => OpenOf(history', a) = {}]_vars

\* C6 witness: alarm 1 was triggered at 56 and a check_alarm at the later
\* sample 55 has stamped cleared_at on its event.
C6_Witness ==
    /\ alarmCall = AlarmRet("check_alarm", 1, FALSE)
    /\ HasGood /\ LatestGoodValue = 55
    /\ \E i \in DOMAIN history :
          /\ history[i].alarm = 1 /\ history[i].trigger_value = 56
          /\ history[i].cleared_at = Some(Now)
    /\ OpenOf(history, 1) = {}

\* How many driver instances of interface i hold an open transport, over the
\* connection manager's pool and the register service's cache.
OpenIn(slot) == IF slot # None /\ Get(slot).client = "open" THEN 1 ELSE 0
OpenDrivers(i) == OpenIn(pool[i]) + OpenIn(svc[i])

C8_FailedHealthCheck ==
    [][\A i \in Ifaces, co \in ConnectOutcomes, co2 \in ConnectOutcomes,
          ro \in ReqOutcomes :
          (HealthCheck(i, co, co2, ro) /\ lastCall'.ret = "False") =>
              /\ ifaceStatus'[i] = "error"
              /\ get_statistics(Mgr, i)'.error_count
                     = get_statistics(Mgr, i).error_count + 1
              /\ pool'[i] = None]_vars

\* The driver a service call for register r is made on is not connected.
CalledUnconnected(r) ==
    ~is_connected(get_driver(svc, DevCfg(r.device).iface))

\* C10: every driver read and write operation (FC01-04, 05, 06, 15, 16)
\* called while the driver is not connected makes exactly one implicit
\* connect(); if that connect fails the operation returns None (reads) or
\* False (writes) and hands no request to the transport.
C10_ImplicitConnect ==
    [][\A r \in Registers, co \in ConnectOutcomes, ro \in ReqOutcomes :
          (/\ \/ read_register(r, co, ro) /\ ~ReadRefused(r) /\ r.fc \in ReadCodes
              \/ write_register(r, co, ro) /\ ~WriteRefused(r) /\ r.fc \in WriteCodes
           /\ CalledUnconnected(r)) =>
              /\ lastCall'.connects = 1
              /\ ~ConnectRet(co) =>
                     lastCall'.ret = FailRet(r.fc) /\ ~lastCall'.requested]_vars

\* The threads whose request on interface i's driver is awaiting its response.
InFlight(i) == {t \in Threads : thr[t].pc = "waiting" /\ thr[t].iface = i}

\* C1: at no time are two Modbus requests in flight on the same
\* interface's driver: with polls, writes and health checks of one
\* interface running concurrently, each round-trip on its transport completes
\* before the next request on it is issued.
C1_OneRequestInFlight == \A i \in Ifaces : Cardinality(InFlight(i)) <= 1

\* C2: two concurrent get_connection calls for the same enabled interface
\* that has no pooled driver yet result in exactly one driver being
\* constructed and exactly one transport connect, and both callers receive
\* the same pooled driver.
C2_OneDriverForConcurrentCallers ==
    \A i \in Ifaces :
        (\A t \in Threads : /\ thr[t].pc = "done"
                            /\ thr[t].op = "get_connection"
                            /\ thr[t].iface = i
                            /\ thr[t].overlap) =>
            /\ thr[1].built + thr[2].built = 1
            /\ thr[1].connects + thr[2].connects = 1
            /\ pool[i] # None
            /\ \A t \in Threads : thr[t].ret = "driver"

\* The last call reached a driver operation: it made the implicit connect
\* or handed a request to the client.
ReachedDriver(call) ==
    /\ call.op \in {"read_register", "write_register"}
    /\ call.connects > 0 \/ call.requested

\* The next operation, whatever its function code, calls connect() first.
NextOpConnects(drv) ==
    \A fc \in ReadCodes \cup WriteCodes, co \in ConnectOutcomes :
        IssueOp(drv, fc, co).connects = 1

\* C11: after a driver operation other than the single-register write
\* (FC06) fails (error response, exception, timeout), is_connected() is
\* false and the next operation on the driver calls connect() before its
\* request; a failing FC06 leaves the connection state as it was when the
\* request was made: connected if the driver was connected before the call
\* or its implicit connect succeeded, unconnected otherwise.
C11_FailureMarksBroken ==
    (ReachedDriver(lastCall) /\ lastCall.ret = FailRet(lastCall.fc)) =>
        LET drv == Get(svc[lastCall.iface])
        IN  IF lastCall.fc # 6
            THEN ~is_connected(drv) /\ NextOpConnects(drv)
            ELSE is_connected(drv) = (lastCall.connects = 0 \/ ~lastCall.connectFailed)

\* C11 witness: a holding-register read went out on the transport and came
\* back failed, and a single-register write failed on interface 2 leaving
\* its driver connected.
C11_Witness ==
    /\ lastCall.op = "read_register"
    /\ lastCall.iface = 1
    /\ lastCall.fc = 3
    /\ lastCall.requested
    /\ lastCall.connects = 0
    /\ lastCall.ret = "None"
    /\ svc[1] # None /\ Get(svc[1]).client = "open" /\ ~Get(svc[1]).connected
    /\ svc[2] # None /\ Get(svc[2]).connected

\* Register r, its device or its interface is disabled.
Disabled(r) ==
    \/ ~r.enabled
    \/ ~DevCfg(r.device).enabled
    \/ ~ifaceEnabled[DevCfg(r.device).iface]

\* The last call made no implicit connect and handed no request to a client.
NoDriverCall(call) == call.connects = 0 /\ ~call.requested

\* C12: read_register on a register that is disabled, or whose device or
\* interface is disabled, returns (None, None) without creating a driver and
\* without invoking a driver operation; the driver cache is unchanged.
C12_DisabledReadShortCircuits ==
    [][(lastCall'.op = "read_register" /\ Disabled(lastCall'.reg)) =>
          \A co \in ConnectOutcomes, ro \in ReqOutcomes :
              read_register(lastCall'.reg, co, ro) =>
                  /\ lastCall'.ret = "None"
                  /\ NoDriverCall(lastCall')
                  /\ svc' = svc]_vars

\* C12 witness: a read on disabled interface 1 returned None while enabled
\* interface 2 has a cached driver and interface 1 has none.
C12_Witness ==
    /\ lastCall.op = "read_register"
    /\ lastCall.iface = 1
    /\ ~ifaceEnabled[1]
    /\ lastCall.ret = "None"
    /\ svc[1] = None
    /\ svc[2] # None

\* The register passes none of write_register's checks: something is
\* disabled, the function code is not a write code, or writable is false.
NotWritableNow(r) == Disabled(r) \/ r.fc \notin {5, 6, 15, 16} \/ ~r.writable

\* C13: write_register returns False, issues no driver call and creates no
\* driver whenever the interface, device or register is disabled, the
\* function code is not one of 5, 6, 15, 16, or writable is false; a driver
\* write is issued only when all of these checks pass.
C13_RefusedWriteShortCircuits ==
    [][(lastCall'.op = "write_register" /\ NotWritableNow(lastCall'.reg)) =>
          \A co \in ConnectOutcomes, ro \in ReqOutcomes :
              write_register(lastCall'.reg, co, ro) =>
                  /\ lastCall'.ret = "False"
                  /\ NoDriverCall(lastCall')
                  /\ svc' = svc]_vars

\* C13 witness: a write to a register whose writable flag is false was
\* refused on an enabled interface that has a connected driver.
C13_Witness ==
    /\ lastCall.op = "write_register"
    /\ lastCall.iface = 1
    /\ lastCall.fc = 6
    /\ lastCall.ret = "False"
    /\ NoDriverCall(lastCall)
    /\ ifaceEnabled[1]
    /\ svc[1] # None /\ is_connected(Get(svc[1]))

\* C14: read_device_registers attempts a read for every enabled register of
\* the device exactly once, in order, whatever the earlier reads gave, and
\* returns normally; its mapping has an entry for exactly the registers whose
\* read gave data, every failed read having come back as (None, None).
C14_ReadsEveryRegister ==
    lastCall.op = "read_device_registers" =>
        /\ lastCall.ret = "dict"
        /\ lastCall.attempts = EnabledIds(lastCall.device)
        /\ Len(lastCall.rets) = Len(lastCall.attempts)
        /\ \A k \in DOMAIN lastCall.rets : lastCall.rets[k] \in {"None", "data"}
        /\ lastCall.results =
               {lastCall.attempts[k] : k \in {j \in DOMAIN lastCall.rets :
                                                  lastCall.rets[j] = "data"}}

\* C14 witness: polling device 1 the first register's read failed and the
\* last one's succeeded, so only the last one has an entry.
C14_Witness ==
    /\ lastCall.op = "read_device_registers"
    /\ lastCall.device = 1
    /\ lastCall.attempts = <<1, 3>>
    /\ lastCall.rets = <<"None", "data">>
    /\ lastCall.results = {3}

\* The rows agree in everything but the three acknowledgement fields.
SameButAck(h1, h2) ==
    /\ Len(h1) = Len(h2)
    /\ \A i \in DOMAIN h1 :
           [h1[i] EXCEPT !.acknowledged = FALSE, !.acknowledged_at = None,
                         !.acknowledged_by = ""]
             = [h2[i] EXCEPT !.acknowledged = FALSE, !.acknowledged_at = None,
                             !.acknowledged_by = ""]

\* C15: acknowledge_alarm on an existing unacknowledged event returns true
\* and stamps acknowledged, acknowledged_at and acknowledged_by on it; on an
\* acknowledged event or an unknown id it returns false and changes nothing,
\* so the first acknowledger and timestamp stay. It never alters cleared_at
\* or an alarm's active state, and no step takes acknowledged back to false.
C15_AcknowledgeOnce ==
    [][/\ \A id \in 1..(MaxEvents + 1), who \in AckArgs :
             acknowledge_alarm(id, who) =>
                 /\ IF id \in DOMAIN history /\ ~history[id].acknowledged
                    THEN /\ alarmCall'.ret = TRUE
                         /\ history'[id].acknowledged
                         /\ history'[id].acknowledged_at = Some(Now)
                         /\ history'[id].acknowledged_by
                                = (IF who = "" THEN "system" ELSE who)
                         /\ \A j \in DOMAIN history \ {id} : history'[j] = history[j]
                    ELSE /\ alarmCall'.ret = FALSE
                         /\ history' = history
                 /\ SameButAck(history, history')
                 /\ \A a \in Alarms : is_active(history', a) = is_active(history, a)
       /\ \A i \in DOMAIN history :
             history[i].acknowledged =>
                 i \in DOMAIN history' /\ history'[i].acknowledged]_vars

\* C15 witness: event 1 was acknowledged by alice at an earlier time, has
\* been cleared since, and a later acknowledge_alarm on it returned false.
C15_Witness ==
    /\ alarmCall = AlarmRet("acknowledge_alarm", 1, FALSE)
    /\ Len(history) >= 1
    /\ history[1].acknowledged
    /\ history[1].acknowledged_by = "alice"
    /\ history[1].acknowledged_at # Some(Now)
    /\ history[1].cleared_at # None

\* Alarm a is a range alarm without a low threshold.
MissingLow(a) == AlarmCfg(a).condition = "range" /\ AlarmCfg(a).threshold_low = None

\* The enabled alarms whose evaluation is reached and finds the low
\* threshold missing.
FailingAlarms ==
    {a \in ConfiguredAlarms : alarmEnabled[a] /\ HasGood /\ MissingLow(a)}

\* C16: evaluating a range alarm whose threshold_low is absent is a hard
\* failure: check_alarm raises instead of answering false, and
\* check_all_alarms counts the alarm under errors, not under checked.
C16_MissingLowIsHardFailure ==
    [][/\ \A a \in ConfiguredAlarms :
             (check_alarm(a) /\ a \in FailingAlarms) => alarmCall'.raised
       /\ check_all_alarms =>
             /\ alarmCall'.errors = Cardinality(FailingAlarms)
             /\ alarmCall'.checked
                    = Cardinality({a \in ConfiguredAlarms : alarmEnabled[a]})
                          - Cardinality(FailingAlarms)]_vars

\* ---- C17 ----
\* The evaluation the claim gives for the arguments a of a call.
Reference(a) ==
    LET value == a.value
        high == a.threshold_high
        hyst == a.hysteresis
    IN  CASE a.condition = "greater_than" -> value > high + hyst
          [] a.condition = "less_than" -> value < high - hyst
          [] a.condition = "equals" -> Abs(value - high) <= hyst
          [] a.condition = "not_equals" -> Abs(value - high) > hyst
          [] a.condition = "range" ->
                \/ value < Get(a.threshold_low) - hyst
                \/ value > high + hyst
          [] OTHER -> FALSE

EvalCase(condition, value, high, low, hyst) ==
    [condition |-> condition, value |-> value, threshold_high |-> high,
     threshold_low |-> low, hysteresis |-> hyst]

Evaluated(a, b) == evalCall.args = Some(a) /\ evalCall.ret = Some(b)

\* C17: for every condition name, value, thresholds and hysteresis >= 0 of
\* the bounded sets, _evaluate_condition returns what the reference gives
\* (range being compared when the low threshold is present, any name outside
\* the five conditions giving false); greater_than 50 with hysteresis 5 is
\* false at 54 and true at 56, and range 10..50 with hysteresis 2 is false at
\* 9 and at 30 and true at 5.
C17_EvaluatesAsReference ==
    evalCall.ret # None =>
        LET a == Get(evalCall.args)
            ret == Get(evalCall.ret)
        IN  /\ ~(a.condition = "range" /\ a.threshold_low = None)
                  => ret = Reference(a)
            /\ a.condition \notin Conditions => ret = FALSE
            /\ a = EvalCase("greater_than", 54, 50, a.threshold_low, 5) => ~ret
            /\ a = EvalCase("greater_than", 56, 50, a.threshold_low, 5) => ret
            /\ a = EvalCase("range", 9, 50, Some(10), 2) => ~ret
            /\ a = EvalCase("range", 30, 50, Some(10), 2) => ~ret
            /\ a = EvalCase("range", 5, 50, Some(10), 2) => ret

\* A range evaluation of the value 5 against 10..50 with hysteresis 2 has
\* returned true.
C17_Witness == Evaluated(EvalCase("range", 5, 50, Some(10), 2), TRUE)

\* ---- C18 ----
\* C18: a check_alarm on a disabled alarm, or on an alarm whose register has
\* no good-quality sample, returns false and leaves the AlarmHistory rows
\* (none appended, none cleared) and last_triggered as they were, whatever
\* the samples and whether or not the alarm has an open row.
C18_SkippedCheckChangesNothing ==
    [][\A a \in Alarms :
          (check_alarm(a) /\ (~alarmEnabled[a] \/ ~HasGood))
              => /\ alarmCall'.ret = FALSE
                 /\ ~alarmCall'.raised
                 /\ history' = history
                 /\ lastTriggered' = lastTriggered]_vars

\* check_alarm has returned early on an alarm that has an open row.
C18_Witness ==
    /\ alarmCall.op = "check_alarm"
    /\ alarmCall.early
    /\ OpenOf(history, alarmCall.arg) # {}

\* ---- C19 ----
\* The stored samples an hourly run for (register, start) has to consider:
\* those of the register, of good quality, stamped at or after start and
\* before start + 1h.
Considered(register, start) ==
    {x \in DOMAIN rawData : /\ x.register = register
                            /\ x.quality = "good"
                            /\ start <= x.timestamp
                            /\ x.timestamp < start + Hour}

\* row holds the minimum, the maximum, the mean and the number of the
\* converted values of the samples S (each counted as often as it is stored).
HoldsStatisticsOf(row, S) ==
    LET values == {x.converted_value : x \in S}
        count == Sum(rawData, S)
        total == Sum([x \in S |-> rawData[x] * x.converted_value], S)
    IN  /\ row.min_value \in values /\ \A v \in values : row.min_value <= v
        /\ row.max_value \in values /\ \A v \in values : row.max_value >= v
        /\ row.avg_value[1] * count = total * row.avg_value[2]
        /\ row.sample_count = count

\* C19: aggregate_hourly(register, start) considers exactly the register's
\* good-quality samples with start <= timestamp < start + 1h; with none it
\* returns 0 and writes nothing; otherwise it returns 1 and the hourly row of
\* (register, start) holds the min, max, mean and count of their converted
\* values; the samples 10, 20, 30, 40, 50 give min 10, max 50, avg 30, count 5.
C19_HourlyStatistics ==
    [][\A r \in AggRegisters, s \in HourStarts :
          aggregate_hourly(r, s) =>
              LET key == <<r, "hourly", s>>
              IN  /\ ~aggCall'.raised
                  /\ IF Considered(r, s) = {}
                     THEN aggCall'.ret = 0 /\ aggregated' = aggregated
                     ELSE /\ aggCall'.ret = 1
                          /\ Len(aggregated'[key]) = 1
                          /\ HoldsStatisticsOf(aggregated'[key][1], Considered(r, s))
                  /\ (rawData = FiveSamples /\ s = 0)
                        => aggregated'[key] = <<Aggregate(10, 50, <<30, 1>>, 5)>>]_vars

\* An hourly run over the five samples 10..50 has returned 1 and the row of
\* the bucket holds their statistics.
C19_Witness ==
    /\ rawData = FiveSamples
    /\ aggCall.op = "aggregate_hourly"
    /\ aggCall.ret = 1
    /\ aggregated[<<1, "hourly", 0>>] = <<Aggregate(10, 50, <<30, 1>>, 5)>>

\* ---- C20 ----
\* The keys of the stored rows of one interval of a register with bucket
\* start in [lo, hi).
StoredKeys(table, register, interval, lo, hi) ==
    {k \in AggKeys : /\ k[1] = register /\ k[2] = interval
                     /\ lo <= k[3] /\ k[3] < hi
                     /\ table[k] # <<>>}

\* row holds the statistics of the rows stored under the keys K: the least
\* minimum, the greatest maximum, the mean of the averages and their number.
HoldsStatisticsOfRows(row, table, K) ==
    LET n == Cardinality(K)
        total == RatSum([k \in K |-> table[k][1].avg_value], K)
    IN  /\ \E k \in K : row.min_value = table[k][1].min_value
        /\ \A k \in K : row.min_value <= table[k][1].min_value
        /\ \E k \in K : row.max_value = table[k][1].max_value
        /\ \A k \in K : row.max_value >= table[k][1].max_value
        /\ row.avg_value[1] * total[2] * n = total[1] * row.avg_value[2]
        /\ row.sample_count = n

\* An aggregation run for the bucket key has just been made (this step), it
\* found data, and a second run now would leave the table as it is.
RunAgainChangesNothing(key) ==
    CASE key[2] = "hourly" ->
            AggregateHourly(rawData', aggregated', key[1], key[3]).table = aggregated'
      [] key[2] = "daily" ->
            AggregateDaily(aggregated', key[1], key[3]).table = aggregated'
      [] OTHER ->
            AggregateWeekly(aggregated', key[1], key[3]).table = aggregated'

\* C20: over any sequence of hourly, daily and weekly runs and arriving
\* samples there is at most one aggregate row per (register, interval, bucket
\* start); a run that finds data leaves under its key the statistics of the
\* data present at that run, whether the row existed or not; and a second run
\* with no data change in between leaves that same row.
C20_IdempotentUpsert ==
    [][/\ \A k \in AggKeys : Len(aggregated'[k]) <= 1
       /\ \A r \in AggRegisters, s \in HourStarts :
             (aggregate_hourly(r, s) /\ Considered(r, s) # {}) =>
                 /\ aggregated'[<<r, "hourly", s>>] # <<>>
                 /\ HoldsStatisticsOf(aggregated'[<<r, "hourly", s>>][1],
                                      Considered(r, s))
                 /\ RunAgainChangesNothing(<<r, "hourly", s>>)
       /\ \A r \in AggRegisters, s \in DayStarts :
             LET K == StoredKeys(aggregated, r, "hourly", s, s + Day)
             IN  (aggregate_daily(r, s) /\ K # {}) =>
                     /\ aggregated'[<<r, "daily", s>>] # <<>>
                     /\ HoldsStatisticsOfRows(aggregated'[<<r, "daily", s>>][1],
                                              aggregated, K)
                     /\ RunAgainChangesNothing(<<r, "daily", s>>)
       /\ \A r \in AggRegisters, s \in WeekStarts :
             LET K == StoredKeys(aggregated, r, "daily", s, s + Week)
             IN  (aggregate_weekly(r, s) /\ K # {}) =>
                     /\ aggregated'[<<r, "weekly", s>>] # <<>>
                     /\ HoldsStatisticsOfRows(aggregated'[<<r, "weekly", s>>][1],
                                              aggregated, K)
                     /\ RunAgainChangesNothing(<<r, "weekly", s>>)]_vars

\* A re-run of an hourly bucket has replaced the row of an earlier run by
\* different statistics (samples arrived in between), and the bucket still
\* has the one row.
C20_Witness ==
    /\ aggCall.op = "aggregate_hourly"
    /\ ~aggCall.created
    /\ aggCall.replaced # None
    /\ LET rows == aggregated[<<aggCall.register, "hourly", aggCall.start_time>>]
       IN  Len(rows) = 1 /\ rows[1] # Get(aggCall.replaced)

\* ---- C21 ----
\* C21: aggregate_daily(register, start) derives the daily row only from the
\* register's hourly rows with bucket start in [start, start + 1 day): min is
\* the least hourly minimum, max the greatest hourly maximum, avg the
\* unweighted mean of the hourly averages (hourly rows avg 10 with n = 5 and
\* avg 30 with n = 1 give avg 20); with no hourly row in the window it
\* returns 0 and writes nothing.
C21_DailyFromHourly ==
    [][\A r \in SampleRegisters, s \in DayStarts :
          LET K == StoredKeys(aggregated, r, "hourly", s, s + Day)
              key == <<r, "daily", s>>
          IN  aggregate_daily(r, s) =>
                 /\ ~aggCall'.raised
                 /\ IF K = {}
                    THEN aggCall'.ret = 0 /\ aggregated' = aggregated
                    ELSE /\ aggCall'.ret = 1
                         /\ Len(aggregated'[key]) = 1
                         /\ HoldsStatisticsOfRows(aggregated'[key][1], aggregated, K)
                 /\ ({aggregated[k] : k \in K}
                        = {<<Aggregate(10, 10, <<10, 1>>, 5)>>,
                           <<Aggregate(30, 30, <<30, 1>>, 1)>>})
                       => aggregated'[key][1].avg_value = <<20, 1>>]_vars

\* A daily run has made the row avg 20 from the hourly rows avg 10 (n = 5)
\* and avg 30 (n = 1) of register 1, while the table also holds an hourly row
\* of the next day and one of the other register.
C21_Witness ==
    /\ aggCall.op = "aggregate_daily" /\ aggCall.register = 1 /\ aggCall.ret = 1
    /\ aggregated[<<1, "hourly", 0>>] = <<Aggregate(10, 10, <<10, 1>>, 5)>>
    /\ aggregated[<<1, "hourly", Hour>>] = <<Aggregate(30, 30, <<30, 1>>, 1)>>
    /\ aggregated[<<1, "hourly", Day>>] # <<>>
    /\ aggregated[<<2, "hourly", 0>>] # <<>>
    /\ aggregated[<<1, "daily", 0>>] = <<Aggregate(10, 30, <<20, 1>>, 2)>>

\* ---- C22 ----
\* The aggregate row keys a cleanup at now has to empty: hourly rows older
\* than the hourly retention and daily rows older than the daily retention.
Expired(k, now, hourly_days, daily_days) ==
    \/ k[2] = "hourly" /\ k[3] < now - hourly_days * Day
    \/ k[2] = "daily" /\ k[3] < now - daily_days * Day

\* C22: cleanup_old_data deletes exactly the raw samples with timestamp
\* < now - raw retention, the hourly aggregates with timestamp < now - hourly
\* retention and the daily aggregates with timestamp < now - daily retention,
\* and returns these three counts; every other row is unchanged and no weekly
\* aggregate is deleted.
C22_CleanupDeletesExactlyExpired ==
    [][LET now == aggCall'.start_time
           rd == aggCall'.days[1]
           hd == aggCall'.days[2]
           dd == aggCall'.days[3]
       IN (aggCall'.op = "cleanup_old_data" /\ cleanup_old_data(now, rd, hd, dd)) =>
             LET gone == {x \in DOMAIN rawData : x.timestamp < now - rd * Day}
                 hourly == {k \in AggKeys : /\ k[2] = "hourly"
                                            /\ Expired(k, now, hd, dd)
                                            /\ aggregated[k] # <<>>}
                 daily == {k \in AggKeys : /\ k[2] = "daily"
                                           /\ Expired(k, now, hd, dd)
                                           /\ aggregated[k] # <<>>}
             IN  /\ DOMAIN rawData' = DOMAIN rawData \ gone
                 /\ \A x \in DOMAIN rawData' : rawData'[x] = rawData[x]
                 /\ \A k \in AggKeys :
                       aggregated'[k] = IF Expired(k, now, hd, dd)
                                        THEN <<>> ELSE aggregated[k]
                 /\ \A k \in AggKeys :
                       k[2] = "weekly" => aggregated'[k] = aggregated[k]
                 /\ aggCall'.deleted = <<Sum(rawData, gone), Cardinality(hourly),
                                         Cardinality(daily)>>]_vars

\* A cleanup has deleted raw samples, hourly rows and daily rows, has kept
\* samples, and the weekly row of the oldest bucket is still stored.
C22_Witness ==
    /\ aggCall.op = "cleanup_old_data"
    /\ \A i \in 1..3 : aggCall.deleted[i] > 0
    /\ rawData # EmptyTable
    /\ aggregated[<<1, "weekly", 0>>] # <<>>

\* ---- C23 ----
\* Device d is due at the time now: it is enabled, its interface is enabled,
\* and it was never polled or its last_poll lies at least polling_interval
\* seconds back.
Due(d, now) ==
    /\ DevCfg(d).enabled
    /\ ifaceEnabled[DevCfg(d).iface]
    /\ \/ devState[d].last_poll = None
       \/ Get(devState[d].last_poll) + polling_interval(d) <= now

\* C23: poll_all_devices dispatches a poll for exactly the devices that are
\* enabled, on an enabled interface and never polled or last polled at least
\* polling_interval seconds ago, so a device polled successfully less than
\* polling_interval seconds ago is not dispatched; and a poll of a device
\* whose interface is disabled reads no register.
C23_DispatchesExactlyDue ==
    [][/\ poll_all_devices =>
             /\ pollCall'.dispatched = {d \in Devices : Due(d, clock)}
             /\ queue' = queue \cup {d \in Devices : Due(d, clock)}
             /\ \A d \in Devices :
                   (/\ devState[d].connection_status = "online"
                    /\ clock < Get(devState[d].last_poll) + polling_interval(d))
                       => d \notin pollCall'.dispatched
       /\ \A d \in Devices :
             (d \in queue /\ d \notin queue' /\ ~ifaceEnabled[DevCfg(d).iface])
                 => /\ pollCall'.op = "poll_device_registers"
                    /\ pollCall'.attempts = <<>>
                    /\ svc' = svc
                    /\ rawData' = rawData]_vars

\* poll_all_devices has dispatched device 2 and not device 1, which is on an
\* enabled interface and was polled successfully less than its polling
\* interval before the run.
C23_Witness ==
    /\ pollCall.op = "poll_all_devices"
    /\ pollCall.dispatched = {2}
    /\ devState[1].connection_status = "online"
    /\ pollCall.now < Get(devState[1].last_poll) + polling_interval(1)
    /\ devState[2].connection_status = "online"

\* The number of rows equal to x in the sample table raw.
Stored(raw, x) == IF x \in DOMAIN raw THEN raw[x] ELSE 0

\* The samples a poll of device d at the time now stores for the registers
\* read.
PollSamples(d, read, now) == {Sample(RegisterId(d, k), now, 10, "good") : k \in read}

\* C24 (as stated): after any sequence of polls of a device, its error_count
\* equals the number of its latest consecutive polls that returned no data,
\* every run of the polling task counted as a poll.
C24_ErrorCountCountsEveryPoll ==
    \A d \in Devices : devState[d].error_count = trail[d].any

\* C24 (corrected): a poll counts only when it reads the device, that is when
\* the device is enabled and its interface is enabled at the time it runs.
\* After any sequence of polls, error_count equals the number of the latest
\* consecutive polls that read the device and got no data.  A poll in which at
\* least one register was read sets the status online, error_count 0 and
\* last_poll to now and stores exactly one good sample per register read; a
\* poll that read the device and got nothing sets the status error, adds one
\* to error_count and leaves last_poll and the samples alone; a run that
\* returns before reading changes neither the device row nor the samples.
C24_ErrorCountCountsReadingPolls ==
    /\ [](\A d \in Devices : devState[d].error_count = trail[d].ran)
    /\ [][\A d \in Devices :
            trail'[d] # trail[d] =>
                /\ pollCall'.op = "poll_device_registers"
                /\ pollCall'.device = d
                /\ \A e \in Devices \ {d} : devState'[e] = devState[e]
                /\ pollCall'.path = "stored" =>
                      /\ pollCall'.results # {}
                      /\ devState'[d].connection_status = "online"
                      /\ devState'[d].error_count = 0
                      /\ devState'[d].last_poll = Some(clock)
                      /\ \A x \in DOMAIN rawData \cup DOMAIN rawData' :
                            Stored(rawData', x) = Stored(rawData, x) +
                                IF x \in PollSamples(d, pollCall'.results, clock)
                                THEN 1 ELSE 0
                /\ pollCall'.path = "no_data" =>
                      /\ pollCall'.results = {}
                      /\ pollCall'.attempts = EnabledIds(d)
                      /\ devState'[d].connection_status = "error"
                      /\ devState'[d].error_count = devState[d].error_count + 1
                      /\ devState'[d].last_poll = devState[d].last_poll
                      /\ rawData' = rawData
                /\ pollCall'.path \in {"not_found", "interface_disabled"} =>
                      /\ pollCall'.attempts = <<>>
                      /\ devState'[d] = devState[d]
                      /\ rawData' = rawData
                /\ (DevCfg(d).enabled /\ ifaceEnabled[DevCfg(d).iface])
                      <=> pollCall'.path \in {"stored", "no_data"}]_vars

\* A device whose first poll stored samples and whose second poll read it and
\* got nothing: one error counted.
C24_Witness ==
    /\ pollCall.op = "poll_device_registers"
    /\ pollCall.device = 1
    /\ pollCall.path = "no_data"
    /\ trail[1] = [runs |-> 2, any |-> 1, ran |-> 1]
    /\ devState[1].connection_status = "error"
    /\ devState[1].error_count = 1
    /\ devState[1].last_poll # None

\* Whether the cache entry after is the driver drv, untouched or after the one
\* driver operation of function code fc.
SameDriverAfter(after, drv, fc) ==
    \/ after = Some(drv)
    \/ \E co \in ConnectOutcomes, ro \in ReqOutcomes :
          after = Some(DriverOp(drv, fc, co, ro).drv)

\* C25: on one RegisterService, over any sequence of get_driver,
\* read_register and write_register calls, a driver is constructed for an
\* interface only when the cache holds none for it, and a call for an
\* interface whose driver is cached works on that cached driver: the cache
\* entry afterwards is the cached driver after at most one operation, a
\* get_driver leaves it as it is, and a cached driver that is connected is
\* not connected again.  An entry leaves the cache only through
\* close_all_connections, which empties it.
C25_OneDriverPerInterface ==
    [][ifaceEnabled' = ifaceEnabled =>
        \A i \in Ifaces :
          IF svc[i] # None
          THEN IF svc'[i] = None
               THEN /\ lastCall'.op = "close_all_connections"
                    /\ \A j \in Ifaces : svc'[j] = None
               ELSE /\ lastCall'.iface # i => svc'[i] = svc[i]
                    /\ (lastCall'.op = "get_driver" /\ lastCall'.iface = i)
                          => svc'[i] = svc[i]
                    /\ (lastCall'.iface = i /\ is_connected(Get(svc[i])))
                          => lastCall'.connects = 0
                    /\ SameDriverAfter(svc'[i], Get(svc[i]), lastCall'.fc)
          ELSE svc'[i] # None =>
                    /\ lastCall'.iface = i
                    /\ lastCall'.op \in {"get_driver", "read_register", "write_register"}
                    /\ lastCall'.op = "get_driver" => svc'[i] = Some(NewDriver(i))
                    /\ SameDriverAfter(svc'[i], NewDriver(i), lastCall'.fc)]_vars

\* A read served by the cached driver: the request went out without a connect,
\* so the driver had been connected by an earlier call.
C25_Witness ==
    /\ lastCall.op = "read_register"
    /\ lastCall.requested
    /\ lastCall.connects = 0
    /\ lastCall.ret # "None"
    /\ svc[lastCall.iface] # None
    /\ is_connected(Get(svc[lastCall.iface]))

\* C26: get_connection for a disabled interface raises at once: it constructs
\* no driver and makes no connect, and the pool, the statistics and the
\* interface status are as before.
C26_DisabledFailsImmediately ==
    [][\A i \in Ifaces :
          (/\ lastCall'.op = "get_connection"
           /\ lastCall'.iface = i
           /\ ~ifaceEnabled[i]
           /\ \E co \in ConnectOutcomes : GetConnection(i, co))
              => /\ lastCall'.ret = "raised"
                 /\ lastCall'.connects = 0
                 /\ \A co \in ConnectOutcomes : get_connection(Mgr, i, co).built = 0
                 /\ pool' = pool
                 /\ stats' = stats
                 /\ ifaceStatus' = ifaceStatus]_vars

\* get_connection was called for a disabled interface that had never been
\* reached before: it raised and the status is still the initial one.
C26_Witness ==
    /\ lastCall.op = "get_connection"
    /\ lastCall.ret = "raised"
    /\ ~ifaceEnabled[lastCall.iface]
    /\ ifaceStatus[lastCall.iface] = "offline"

\* A decode of the register list regs as data_type has returned ret.
Converted(regs, data_type, ret) ==
    /\ evalCall.args # None
    /\ Get(evalCall.args).registers = regs
    /\ Get(evalCall.args).data_type = data_type
    /\ evalCall.ret = Some(ret)

\* C28: for every 16-bit word w, decoding [w] as INT16 gives the integer of
\* -32768..32767 that differs from w by a multiple of 65536, that is w below
\* 32768 and w - 65536 from 32768 on (100 gives 100, 65436 gives -100);
\* decoding [w] as UINT16 gives w; and decoding fewer than two words as INT32,
\* UINT32 or FLOAT32 gives None.
C28_DecodesSixteenBits ==
    evalCall.ret # None =>
        LET a == Get(evalCall.args)
            ret == Get(evalCall.ret)
            w == a.registers[1]
        IN  /\ (a.data_type = "INT16" /\ Len(a.registers) = 1) =>
                  /\ ret.type = "int"
                  /\ ret.value \in (0 - 32768)..32767
                  /\ (ret.value - w) % 65536 = 0
                  /\ w < 32768 => ret.value = w
                  /\ w >= 32768 => ret.value = w - 65536
                  /\ w = 100 => ret.value = 100
                  /\ w = 65436 => ret.value = 0 - 100
            /\ (a.data_type = "UINT16" /\ Len(a.registers) = 1) =>
                  ret = Decoded("int", w)
            /\ (a.data_type \in {"INT32", "UINT32", "FLOAT32"} /\ Len(a.registers) < 2) =>
                  ret = Absent

\* The word 65436 has been decoded as INT16 to -100.
C28_Witness == Converted(<<65436>>, "INT16", Decoded("int", 0 - 100))

\* C29 (as stated): even when check_alarm invocations for one alarm overlap,
\* the alarm never has more than one AlarmHistory row with cleared_at null.
C29_AtMostOneOpenRow ==
    \A a \in Alarms : Cardinality(OpenRows(history, a)) <= 1

\* C30 (as stated): once disconnect() has returned, the driver reports not
\* connected, whether or not closing the transport failed.
C30_NotConnectedAfterDisconnect ==
    lastCall.op = "disconnect" => ~is_connected(Get(svc[lastCall.iface]))

====
